---------------------------- MODULE Spec2Model ----------------------------
(***************************************************************************)
(* Extension-tree resolution and hydration control of render-runtime:      *)
(*   - path algebra        (components/ExtensionPoint/index.tsx)           *)
(*   - prop merger         (components/ExtensionPoint/index.tsx)           *)
(*   - slot materializer   (utils/slots.tsx)                               *)
(*   - slot tree paths     (utils/slots.tsx)                               *)
(*   - tree resolver       (components/ExtensionPoint/index.tsx)           *)
(*   - ExtensionPoint      (components/ExtensionPoint/index.tsx)           *)
(*   - hydration gate      (components/Hydration/PreventHydration.tsx)     *)
(*   - critical-style activation (utils/uncritical.ts)                     *)
(* Each component has its own variables and its own specification; the     *)
(* variables of the other components stay at their idle values.            *)
(* Strings are sequences of one-character strings, so that concatenation   *)
(* and comparison are computed and not assumed.                            *)
(***************************************************************************)
EXTENDS Integers, Sequences, FiniteSets, TLC

VARIABLES
    \* ---- path algebra
    pathArgs,           \* <<a, b, c>>: the three segments under test
    pathOut,            \* results of the joins, filled by ApplyMountTreePath
    \* ---- critical-style activation (module state of uncritical.ts)
    debugCriticalCSS,   \* window.__RUNTIME__.query.__debugCriticalCSS
    styleRefs,          \* [...base, ...overrides]: one kind per ref
    hasCriticalElement, \* document.querySelector('style#critical') at start
    stylePhase,         \* "init" before resolveUncriticalPromise, then "registered"
    totalStylesCount,
    loadedStyles,       \* Set<string|null> in insertion order
    stylesHydrated,
    linkRel,            \* rel attribute of each appended link, "none" if not appended
    criticalPresent,    \* style#critical is still in the document
    fired,              \* per ref: the kinds of event it has fired so far
    applyCount,         \* how many times applyUncritical has run
    stepIt,             \* the counter `it` of the stepUncritical closure
    promoted,           \* ids whose link got rel = stylesheet, in the order set
    manualInvoked,      \* the functions exposed on window that have been called
    \* ---- hydration gate (one PreventHydration instance)
    canUseDOM,          \* FALSE on the server
    hasRenderedOnServer,\* useDehydratedContent(treePath).hasRenderedOnServer
    shouldHydrate,      \* the prop, as last passed by the parent
    initialShouldHydrate, \* useRef(shouldHydrate), captured at mount
    isLoaded,           \* useState(isSSR) of useAssetLoading
    gateView,           \* what the last render returned
    effectDeps,         \* <<isLoaded, shouldLoad>> of the last render
    loads,              \* the loadAssets calls made so far
    implRegistered,     \* getImplementation(component) is truthy
    \* ---- slot materializer (the instances of one labeled slot)
    baseExt,            \* runtime.extensions[newTreePath]
    dynExt,             \* runtime.extensions[dynamicTreePath]
    slots,              \* per SlotComponent instance: what is mounted, its query, its output
    fetches,            \* content fetches issued so far
    dynWrites,          \* per assignment to extensions[dynamicTreePath]: what the key held before
    slotRenders,        \* re-renders made so far
    \* ---- prop merger (one render of ExtensionPoint, one top-level key)
    mergeKey,           \* the top-level key the sources conflict on
    mergeIn,            \* what each input gives for that key
    mergedProps,        \* the result of the useMemo
    \* ---- slot tree paths (one generateSlot call, one render of its SlotComponent)
    slotPathArgs,       \* treePath, slotValue and props.id
    slotPathOut,        \* newTreePath and dynamicTreePath as computed
    \* ---- tree resolver (one call of getChildExtensions)
    childArgs,          \* treePath, the context's tree path, the registry entry
    childOut,           \* what the call returned
    \* ---- ExtensionPoint (one render)
    epArgs,             \* props, the context's tree path, the runtime
    epOut,              \* what the render returned
    \* ---- content choice of DynamicSlot (one resolved query)
    contentArgs,        \* data.listContent of one resolved content query
    contentOut,         \* the extensionContent DynamicSlot derives from it
    \* ---- outer extensions (one call of withOuterExtensions)
    outerArgs,          \* after, around, before, treePath and lazyFooter of one withOuterExtensions call
    outerOut,           \* the element the call returned
    \* ---- prefetch
    prefetchActive,     \* isPrefetchActive(storeSettings)
    hooks,              \* one record per usePrefetchAttempt instance and its queued task
    pathsState,         \* prefetchState.pathsState: path -> { fetching, page }
    pathCache,          \* getCacheForPage(page) entries, as <<page, path>> pairs
    routesCache,        \* prefetchState.routesCache: pages with route data
    routePromise,       \* prefetchState.routePromise: page -> state of the shared promise
    inFlight            \* fetchRouteData calls started and not yet settled, per page

pathVars  == <<pathArgs, pathOut>>
styleVars == <<debugCriticalCSS, styleRefs, hasCriticalElement, stylePhase,
               totalStylesCount, loadedStyles, stylesHydrated, linkRel,
               criticalPresent, fired, applyCount, stepIt, promoted,
               manualInvoked>>
gateVars  == <<canUseDOM, hasRenderedOnServer, shouldHydrate,
               initialShouldHydrate, isLoaded, gateView, effectDeps, loads,
               implRegistered>>
slotVars  == <<baseExt, dynExt, slots, fetches, dynWrites, slotRenders>>
mergeVars == <<mergeKey, mergeIn, mergedProps>>
slotPathVars == <<slotPathArgs, slotPathOut>>
childVars == <<childArgs, childOut>>
epVars    == <<epArgs, epOut>>
contentVars == <<contentArgs, contentOut>>
outerVars == <<outerArgs, outerOut>>
prefetchVars == <<prefetchActive, hooks, pathsState, pathCache, routesCache, routePromise, inFlight>>
vars == <<pathVars, styleVars, gateVars, slotVars, mergeVars, slotPathVars,
          childVars, epVars,
          contentVars,
          outerVars,
          prefetchVars>>

-----------------------------------------------------------------------------
(* Bounds *)
MaxLen == 2
MaxRefs == 2
MaxApply == 1
MaxLoads == 2
NumSlots == 2
MaxRenders == 2
MaxPieces == 3
MaxBlocks == 2
MaxEntries == 3
MaxOuter == 2
NumHooks == 2

-----------------------------------------------------------------------------
(* Idle values: what a component holds while another one runs *)
NoExtension == [kind |-> "undefined", content |-> "none"]
NoSlotPathOut == [done |-> FALSE, newTreePath |-> <<>>, labeled |-> FALSE,
                  dynamicTreePath |-> <<>>]
NoSlotPathArgs == [treePath |-> <<>>, slotValue |-> <<>>, id |-> <<>>]
NoChildOut == [done |-> FALSE, result |-> [kind |-> "undefined", elements |-> <<>>]]
NoChildArgs == [treePath |-> <<>>, hookTreePath |-> <<>>,
                extension |-> [kind |-> "undefined", hasBlocks |-> FALSE,
                               blocks |-> <<>>]]
NoChildren == [from |-> "none", elements |-> <<>>]
NothingRendered == [kind |-> "nothing", treePath |-> <<>>, loaderChildren |-> "none",
                    componentChildren |-> NoChildren, noSSR |-> FALSE,
                    loadingBar |-> FALSE, inspected |-> FALSE]
NoEpOut == [done |-> FALSE, element |-> NothingRendered]
EpNull == [kind |-> "null", component |-> "null", render |-> "null",
           composition |-> "undefined", hasBlocks |-> FALSE, blocks |-> <<>>]
NoEpArgs == [id |-> <<>>, treePath |-> <<>>, hookTreePath |-> <<>>,
             registry |-> [defined |-> FALSE, key |-> <<>>, value |-> EpNull],
             amp |-> FALSE, preview |-> FALSE, inspect |-> FALSE]
NoContentOut == [done |-> FALSE, extensionContent |-> "none"]
NoOuterArgs == [after |-> <<>>, around |-> <<>>, before |-> <<>>, treePath |-> <<>>,
                lazyFooter |-> FALSE]
NoOuterOut == [done |-> FALSE, element |-> [tag |-> "node"]]
NoPathOut == [ab |-> <<>>, bc |-> <<>>, left |-> <<>>, right |-> <<>>,
              self |-> <<>>, done |-> FALSE]

-----------------------------------------------------------------------------
(***************************************************************************)
(* Prop values. A value is absent, undefined, a scalar, an array or an     *)
(* object; src names the prop source (1..6) that supplied a scalar, an     *)
(* array or an undefined, so that the merged result shows whose value it   *)
(* carries. An object's fields are leaves: absent or a scalar of a source. *)
(***************************************************************************)
Keys == {"appSettings", "params", "query", "k"}
SubKeys == {"x", "y"}
AbsentLeaf == [t |-> "absent", src |-> 0]
NoKids == [j \in SubKeys |-> AbsentLeaf]
Absent == [t |-> "absent", src |-> 0, kids |-> NoKids]
NoProps == [t |-> "object", src |-> 0, kids |-> [k \in Keys |-> Absent]]
NoMergeIn == [appName |-> "none", settings |-> Absent, callSite |-> Absent,
              extensionProps |-> Absent, blockProps |-> Absent, content |-> Absent]

-----------------------------------------------------------------------------
(***************************************************************************)
(* Path algebra                                                            *)
(***************************************************************************)
Alphabet == {"x", "y", "/"}
Slash == <<"/">>
Strings(n) == UNION {[1..k -> Alphabet] : k \in 0..n}

\* mountTreePath with the self-reference guard removed
mountTreePathNoGuard(currentId, parentTreePath) ==
    IF parentTreePath # <<>> /\ currentId # <<>>
    THEN parentTreePath \o Slash \o currentId
    ELSE IF parentTreePath # <<>> THEN parentTreePath ELSE currentId

mountTreePath(currentId, parentTreePath) ==
    IF parentTreePath = currentId
    THEN parentTreePath
    ELSE IF parentTreePath # <<>> /\ currentId # <<>>
         THEN parentTreePath \o Slash \o currentId
         ELSE IF parentTreePath # <<>> THEN parentTreePath ELSE currentId

InitPath ==
    /\ pathArgs \in Strings(MaxLen) \X Strings(MaxLen) \X Strings(MaxLen)
    /\ pathOut = NoPathOut
    /\ debugCriticalCSS = "none"
    /\ styleRefs = <<>>
    /\ hasCriticalElement = FALSE
    /\ stylePhase = "init"
    /\ totalStylesCount = 0
    /\ loadedStyles = <<>>
    /\ stylesHydrated = FALSE
    /\ linkRel = <<>>
    /\ criticalPresent = FALSE
    /\ fired = <<>>
    /\ applyCount = 0
    /\ stepIt = 0
    /\ promoted = <<>>
    /\ manualInvoked = {}
    /\ canUseDOM = FALSE
    /\ hasRenderedOnServer = FALSE
    /\ shouldHydrate = FALSE
    /\ initialShouldHydrate = FALSE
    /\ isLoaded = FALSE
    /\ gateView = "unmounted"
    /\ effectDeps = <<>>
    /\ loads = <<>>
    /\ implRegistered = FALSE
    /\ baseExt = NoExtension
    /\ dynExt = NoExtension
    /\ slots = <<>>
    /\ fetches = 0
    /\ dynWrites = <<>>
    /\ slotRenders = 0
    /\ mergeKey = "k"
    /\ mergeIn = NoMergeIn
    /\ mergedProps = NoProps
    /\ slotPathArgs = NoSlotPathArgs
    /\ slotPathOut = NoSlotPathOut
    /\ childArgs = NoChildArgs
    /\ childOut = NoChildOut
    /\ epArgs = NoEpArgs
    /\ epOut = NoEpOut
    /\ contentArgs = <<>>
    /\ contentOut = NoContentOut
    /\ outerArgs = NoOuterArgs
    /\ outerOut = NoOuterOut
    /\ prefetchActive = FALSE
    /\ hooks = <<>>
    /\ pathsState = <<>>
    /\ pathCache = {}
    /\ routesCache = {}
    /\ routePromise = <<>>
    /\ inFlight = <<>>


\* join a with b, then with c; join a with (b joined with c); join a with itself
ApplyMountTreePath ==
    /\ ~pathOut.done
    /\ LET a == pathArgs[1]
           b == pathArgs[2]
           c == pathArgs[3]
           ab == mountTreePath(b, a)
           bc == mountTreePath(c, b)
       IN pathOut' = [ab |-> ab, bc |-> bc,
                      left |-> mountTreePath(c, ab),
                      right |-> mountTreePath(bc, a),
                      self |-> mountTreePath(a, a),
                      done |-> TRUE]
    /\ UNCHANGED <<pathArgs, styleVars, gateVars, slotVars, mergeVars,
                   slotPathVars, childVars, epVars, contentVars, outerVars, prefetchVars>>

-----------------------------------------------------------------------------
(***************************************************************************)
(* Critical-style activation (utils/uncritical.ts)                         *)
(* A style ref is "null" (createUncriticalLink returns at once), "match"   *)
(* (no media, or the media query matches: the link is appended) or         *)
(* "nomatch" (the link is created but never appended, so it never fires).  *)
(* The id of the ref at position i stands for `uncritical_style_${index}`. *)
(***************************************************************************)
NullId == 0
RefKinds == {"null", "match", "nomatch"}
Statuses == {"loaded", "error"}
RefSeqs(n) == UNION {[1..k -> RefKinds] : k \in 0..n}

Contains(seq, e) == \E k \in 1..Len(seq) : seq[k] = e

\* the refs whose links were appended to the document head
Appended(refs) == {i \in 1..Len(refs) : refs[i] = "match"}

hydrateStyle(rel, id) ==
    IF id # NullId /\ id \in DOMAIN rel /\ rel[id] # "none"
    THEN [rel EXCEPT ![id] = "stylesheet"]
    ELSE rel

RECURSIVE HydrateAll(_, _)
\* Array.from(loadedStyles).forEach(hydrateStyle)
HydrateAll(rel, styles) ==
    IF styles = <<>> THEN rel
    ELSE HydrateAll(hydrateStyle(rel, Head(styles)), Tail(styles))

\* the ids for which hydrateStyle finds an element, in the order of the calls
PromotionOrderByIndex(rel, styles) ==
    LET hit == {id \in DOMAIN rel : rel[id] # "none" /\ Contains(styles, id)}
        RECURSIVE Sorted(_, _)
        Sorted(k, acc) == IF k > Len(rel) THEN acc
                          ELSE Sorted(k + 1, IF k \in hit THEN Append(acc, k) ELSE acc)
    IN Sorted(1, <<>>)
PromotionOrder(rel, styles) ==
    LET Hit(id) == id # NullId /\ id \in DOMAIN rel /\ rel[id] # "none"
    IN SelectSeq(styles, Hit)

\* registerLoadedStyle records every error under the one key null
registerIdKeepsId(styleId, status) == styleId
registerId(styleId, status) == IF status = "loaded" THEN styleId ELSE NullId

\* the condition under which registerLoadedStyle calls applyUncritical
ShouldApplyEarly(styles, total, hydrated, debug) ==
    ~hydrated /\ Len(styles) >= 1 /\ debug # "manual"
ShouldApplyAnyMode(styles, total, hydrated, debug) ==
    ~hydrated /\ Len(styles) = total
ShouldApply(styles, total, hydrated, debug) ==
    ~hydrated /\ Len(styles) = total /\ debug # "manual"

InitStyles ==
    /\ debugCriticalCSS \in {"none", "manual"}
    /\ styleRefs \in RefSeqs(MaxRefs)
    /\ hasCriticalElement \in BOOLEAN
    /\ stylePhase = "init"
    /\ totalStylesCount = 0
    /\ loadedStyles = <<>>
    /\ stylesHydrated = FALSE
    /\ linkRel = [i \in 1..Len(styleRefs) |-> "none"]
    /\ criticalPresent = hasCriticalElement
    /\ fired = [i \in 1..Len(styleRefs) |-> {}]
    /\ applyCount = 0
    /\ stepIt = 0
    /\ promoted = <<>>
    /\ manualInvoked = {}
    /\ pathArgs = <<<<>>, <<>>, <<>>>>
    /\ pathOut = NoPathOut
    /\ canUseDOM = FALSE
    /\ hasRenderedOnServer = FALSE
    /\ shouldHydrate = FALSE
    /\ initialShouldHydrate = FALSE
    /\ isLoaded = FALSE
    /\ gateView = "unmounted"
    /\ effectDeps = <<>>
    /\ loads = <<>>
    /\ implRegistered = FALSE
    /\ baseExt = NoExtension
    /\ dynExt = NoExtension
    /\ slots = <<>>
    /\ fetches = 0
    /\ dynWrites = <<>>
    /\ slotRenders = 0
    /\ mergeKey = "k"
    /\ mergeIn = NoMergeIn
    /\ mergedProps = NoProps
    /\ slotPathArgs = NoSlotPathArgs
    /\ slotPathOut = NoSlotPathOut
    /\ childArgs = NoChildArgs
    /\ childOut = NoChildOut
    /\ epArgs = NoEpArgs
    /\ epOut = NoEpOut
    /\ contentArgs = <<>>
    /\ contentOut = NoContentOut
    /\ outerArgs = NoOuterArgs
    /\ outerOut = NoOuterOut
    /\ prefetchActive = FALSE
    /\ hooks = <<>>
    /\ pathsState = <<>>
    /\ pathCache = {}
    /\ routesCache = {}
    /\ routePromise = <<>>
    /\ inFlight = <<>>


\* resolveUncriticalPromise: the forEach over the refs is synchronous, so
\* every link is created and counted before any of them can fire an event.
\* Absent uncriticalStyleRefs behave like an absent critical element.
resolveUncriticalPromise ==
    /\ stylePhase = "init"
    /\ stylePhase' = "registered"
    /\ IF hasCriticalElement
       THEN /\ totalStylesCount' = Cardinality(Appended(styleRefs))
            /\ linkRel' = [i \in 1..Len(styleRefs) |->
                              IF i \in Appended(styleRefs) THEN "preload" ELSE "none"]
       ELSE UNCHANGED <<totalStylesCount, linkRel>>
    /\ UNCHANGED <<debugCriticalCSS, styleRefs, hasCriticalElement, loadedStyles,
                   stylesHydrated, criticalPresent, fired, applyCount, stepIt,
                   promoted, manualInvoked, pathVars, gateVars, slotVars,
                   mergeVars,
                   slotPathVars, childVars, epVars, contentVars, outerVars, prefetchVars>>

\* the listener registerLoadedStyle(id, status) of link i runs
registerLoadedStyle(i, status) ==
    /\ stylePhase = "registered"
    /\ i \in DOMAIN linkRel
    /\ linkRel[i] # "none"
    /\ fired' = [fired EXCEPT ![i] = @ \cup {status}]
    /\ LET id == registerId(i, status)
           added == Append(loadedStyles, id)
       IN IF Contains(loadedStyles, id)
          THEN UNCHANGED <<loadedStyles, linkRel, criticalPresent, stylesHydrated,
                           applyCount, promoted>>
          ELSE /\ loadedStyles' = added
               /\ IF stylesHydrated
                  THEN /\ linkRel' = hydrateStyle(linkRel, id)
                       /\ promoted' = promoted \o PromotionOrder(linkRel, <<id>>)
                       /\ UNCHANGED <<criticalPresent, stylesHydrated, applyCount>>
                  ELSE IF ShouldApply(added, totalStylesCount, stylesHydrated,
                                      debugCriticalCSS)
                       THEN /\ linkRel' = HydrateAll(linkRel, added)
                            /\ promoted' = promoted \o PromotionOrder(linkRel, added)
                            /\ criticalPresent' = FALSE
                            /\ stylesHydrated' = TRUE
                            /\ applyCount' = applyCount + 1
                       ELSE UNCHANGED <<linkRel, criticalPresent, stylesHydrated,
                                        applyCount, promoted>>
    /\ UNCHANGED <<debugCriticalCSS, styleRefs, hasCriticalElement, stylePhase,
                   totalStylesCount, stepIt, manualInvoked, pathVars, gateVars,
                   slotVars, mergeVars,
                   slotPathVars, childVars, epVars, contentVars, outerVars, prefetchVars>>

\* manual mode exposes applyUncritical, clearCritical and stepUncritical
ManualExposed ==
    /\ stylePhase = "registered"
    /\ hasCriticalElement
    /\ debugCriticalCSS = "manual"

applyUncritical ==
    /\ ManualExposed
    /\ applyCount < MaxApply
    /\ linkRel' = HydrateAll(linkRel, loadedStyles)
    /\ promoted' = promoted \o PromotionOrder(linkRel, loadedStyles)
    /\ criticalPresent' = FALSE
    /\ stylesHydrated' = TRUE
    /\ applyCount' = applyCount + 1
    /\ manualInvoked' = manualInvoked \cup {"applyUncritical"}
    /\ UNCHANGED <<debugCriticalCSS, styleRefs, hasCriticalElement, stylePhase,
                   totalStylesCount, loadedStyles, fired, stepIt, pathVars,
                   gateVars, slotVars, mergeVars,
                   slotPathVars, childVars, epVars, contentVars, outerVars, prefetchVars>>

clearCritical ==
    /\ ManualExposed
    /\ criticalPresent' = FALSE
    /\ manualInvoked' = manualInvoked \cup {"clearCritical"}
    /\ UNCHANGED <<debugCriticalCSS, styleRefs, hasCriticalElement, stylePhase,
                   totalStylesCount, loadedStyles, stylesHydrated, linkRel, fired,
                   applyCount, stepIt, promoted, pathVars, gateVars, slotVars,
                   mergeVars,
                   slotPathVars, childVars, epVars, contentVars, outerVars, prefetchVars>>

\* one call of the closure returned by createStepUncritical
stepUncritical ==
    /\ ManualExposed
    /\ stepIt # totalStylesCount
    /\ manualInvoked' = manualInvoked \cup {"stepUncritical"}
    /\ IF stepIt + 1 > Len(loadedStyles) \/ loadedStyles[stepIt + 1] = NullId
       THEN /\ criticalPresent' = FALSE
            /\ UNCHANGED <<linkRel, stepIt, promoted>>
       ELSE /\ linkRel' = hydrateStyle(linkRel, loadedStyles[stepIt + 1])
            /\ promoted' = promoted \o PromotionOrder(linkRel, <<loadedStyles[stepIt + 1]>>)
            /\ stepIt' = stepIt + 1
            /\ UNCHANGED criticalPresent
    /\ UNCHANGED <<debugCriticalCSS, styleRefs, hasCriticalElement, stylePhase,
                   totalStylesCount, loadedStyles, stylesHydrated, fired,
                   applyCount, pathVars, gateVars, slotVars, mergeVars,
                   slotPathVars, childVars, epVars, contentVars, outerVars, prefetchVars>>

NextStyles ==
    \/ resolveUncriticalPromise
    \/ \E i \in DOMAIN linkRel, status \in Statuses : registerLoadedStyle(i, status)
    \/ applyUncritical
    \/ clearCritical
    \/ stepUncritical


-----------------------------------------------------------------------------
(***************************************************************************)
(* Hydration gate (components/Hydration/PreventHydration.tsx)              *)
(* One gate instance. A load is one call of loadAssets: fetchAssets, then  *)
(* verifyComponentImplementation, whose recursion is unrolled into one     *)
(* lookup per step with a timed wait between two lookups.                  *)
(***************************************************************************)
DefaultRetries == 10
BackoffBase == 1100
BackoffStep == 100

PreventHydrationViewNoContainer(hros, sh, init, loaded, view) ==
    LET shouldRenderImmediately == ~hros \/ (sh /\ sh = init)
    IN IF shouldRenderImmediately THEN "LIVE"
       ELSE IF sh /\ loaded THEN "LIVE" ELSE "FROZEN"

\* the element PreventHydration returns
PreventHydrationView(hros, sh, init, loaded, view) ==
    LET shouldRenderImmediately == ~hros \/ (sh /\ sh = init)
    IN IF ~loaded /\ ~hros THEN "EMPTY"
       ELSE IF shouldRenderImmediately THEN "LIVE"
       ELSE IF sh /\ loaded THEN "LIVE" ELSE "FROZEN"

ShouldLoadAlways(hros, sh, init) == TRUE

\* the shouldLoad argument of useAssetLoading
ShouldLoad(hros, sh, init) == (~hros \/ (sh /\ sh = init)) \/ sh

NewLoad == [stage |-> "fetching", retries |-> DefaultRetries, promise |-> "pending",
            lookups |-> 0, waits |-> 0, waited |-> 0, timeout |-> 0]

verifyComponentImplementationOneMore(load, retries, found) ==
    LET looked == [load EXCEPT !.lookups = @ + 1, !.retries = retries]
    IN IF found
       THEN [looked EXCEPT !.stage = "verified", !.promise = "resolved"]
       ELSE IF retries >= 0
            THEN [looked EXCEPT !.stage = "waiting",
                                !.timeout = BackoffBase - retries * BackoffStep]
            ELSE [looked EXCEPT !.stage = "threw"]

verifyComponentImplementationShrinking(load, retries, found) ==
    LET looked == [load EXCEPT !.lookups = @ + 1, !.retries = retries]
    IN IF found
       THEN [looked EXCEPT !.stage = "verified", !.promise = "resolved"]
       ELSE IF retries > 0
            THEN [looked EXCEPT !.stage = "waiting",
                                !.timeout = retries * BackoffStep]
            ELSE [looked EXCEPT !.stage = "threw"]

\* one call of verifyComponentImplementation(runtime, treePath, retries):
\* what becomes of the load that makes it
verifyComponentImplementation(load, retries, found) ==
    LET looked == [load EXCEPT !.lookups = @ + 1, !.retries = retries]
    IN IF found
       THEN [looked EXCEPT !.stage = "verified", !.promise = "resolved"]
       ELSE IF retries > 0
            THEN [looked EXCEPT !.stage = "waiting",
                                !.timeout = BackoffBase - retries * BackoffStep]
            ELSE [looked EXCEPT !.stage = "threw"]

\* the useEffect of useAssetLoading, run after a render whose deps changed
EffectLoads(loaded, shouldLoad) ==
    IF effectDeps # <<loaded, shouldLoad>> /\ ~loaded /\ shouldLoad
    THEN Append(loads, NewLoad)
    ELSE loads

InitGate ==
    /\ canUseDOM \in BOOLEAN
    /\ hasRenderedOnServer \in BOOLEAN
    /\ shouldHydrate \in BOOLEAN
    /\ initialShouldHydrate = FALSE
    /\ isLoaded = ~canUseDOM
    /\ gateView = "unmounted"
    /\ effectDeps = <<>>
    /\ loads = <<>>
    /\ implRegistered = FALSE
    /\ pathArgs = <<<<>>, <<>>, <<>>>>
    /\ pathOut = NoPathOut
    /\ debugCriticalCSS = "none"
    /\ styleRefs = <<>>
    /\ hasCriticalElement = FALSE
    /\ stylePhase = "init"
    /\ totalStylesCount = 0
    /\ loadedStyles = <<>>
    /\ stylesHydrated = FALSE
    /\ linkRel = <<>>
    /\ criticalPresent = FALSE
    /\ fired = <<>>
    /\ applyCount = 0
    /\ stepIt = 0
    /\ promoted = <<>>
    /\ manualInvoked = {}
    /\ baseExt = NoExtension
    /\ dynExt = NoExtension
    /\ slots = <<>>
    /\ fetches = 0
    /\ dynWrites = <<>>
    /\ slotRenders = 0
    /\ mergeKey = "k"
    /\ mergeIn = NoMergeIn
    /\ mergedProps = NoProps
    /\ slotPathArgs = NoSlotPathArgs
    /\ slotPathOut = NoSlotPathOut
    /\ childArgs = NoChildArgs
    /\ childOut = NoChildOut
    /\ epArgs = NoEpArgs
    /\ epOut = NoEpOut
    /\ contentArgs = <<>>
    /\ contentOut = NoContentOut
    /\ outerArgs = NoOuterArgs
    /\ outerOut = NoOuterOut
    /\ prefetchActive = FALSE
    /\ hooks = <<>>
    /\ pathsState = <<>>
    /\ pathCache = {}
    /\ routesCache = {}
    /\ routePromise = <<>>
    /\ inFlight = <<>>


\* first render; on the client the effect runs after it
Mount ==
    /\ gateView = "unmounted"
    /\ initialShouldHydrate' = shouldHydrate
    /\ gateView' = PreventHydrationView(hasRenderedOnServer, shouldHydrate,
                                        shouldHydrate, isLoaded, gateView)
    /\ LET shouldLoad == ShouldLoad(hasRenderedOnServer, shouldHydrate, shouldHydrate)
       IN IF canUseDOM
          THEN /\ loads' = EffectLoads(isLoaded, shouldLoad)
               /\ effectDeps' = <<isLoaded, shouldLoad>>
          ELSE UNCHANGED <<loads, effectDeps>>
    /\ UNCHANGED <<canUseDOM, hasRenderedOnServer, shouldHydrate, isLoaded,
                   implRegistered, pathVars, styleVars, slotVars, mergeVars,
                   slotPathVars, childVars, epVars, contentVars, outerVars, prefetchVars>>

\* the parent re-renders the gate with another shouldHydrate
SetShouldHydrate(b) ==
    /\ gateView # "unmounted"
    /\ canUseDOM
    /\ b # shouldHydrate
    /\ LET shouldLoad == ShouldLoad(hasRenderedOnServer, b, initialShouldHydrate)
       IN /\ Len(EffectLoads(isLoaded, shouldLoad)) <= MaxLoads
          /\ loads' = EffectLoads(isLoaded, shouldLoad)
          /\ effectDeps' = <<isLoaded, shouldLoad>>
    /\ shouldHydrate' = b
    /\ gateView' = PreventHydrationView(hasRenderedOnServer, b,
                                        initialShouldHydrate, isLoaded, gateView)
    /\ UNCHANGED <<canUseDOM, hasRenderedOnServer, initialShouldHydrate, isLoaded,
                   implRegistered, pathVars, styleVars, slotVars, mergeVars,
                   slotPathVars, childVars, epVars, contentVars, outerVars, prefetchVars>>

\* a load whose promise resolves calls setIsLoaded(true); the gate re-renders
\* (the effect then finds isLoaded true and starts nothing)
AfterLoadStep(newLoads, l) ==
    /\ loads' = newLoads
    /\ IF newLoads[l].promise = "resolved"
       THEN /\ isLoaded' = TRUE
            /\ gateView' = PreventHydrationView(hasRenderedOnServer, shouldHydrate,
                                                initialShouldHydrate, TRUE, gateView)
            /\ effectDeps' = <<TRUE, ShouldLoad(hasRenderedOnServer, shouldHydrate,
                                                initialShouldHydrate)>>
       ELSE UNCHANGED <<isLoaded, gateView, effectDeps>>
    /\ UNCHANGED <<canUseDOM, hasRenderedOnServer, shouldHydrate,
                   initialShouldHydrate, implRegistered, pathVars, styleVars, slotVars, mergeVars,
                   slotPathVars, childVars, epVars, contentVars, outerVars, prefetchVars>>

\* fetchAssets resolves: the first lookup is made at once
FetchAssetsResolved(l) ==
    /\ l \in DOMAIN loads
    /\ loads[l].stage = "fetching"
    /\ AfterLoadStep([loads EXCEPT ![l] =
          verifyComponentImplementation(loads[l], DefaultRetries, implRegistered)], l)

\* fetchAssets rejects: nothing handles it, the load promise stays pending
FetchAssetsRejected(l) ==
    /\ l \in DOMAIN loads
    /\ loads[l].stage = "fetching"
    /\ AfterLoadStep([loads EXCEPT ![l].stage = "fetchFailed"], l)

\* the setTimeout of a retry fires: the recursive call with retries - 1
RetryTimeout(l) ==
    /\ l \in DOMAIN loads
    /\ loads[l].stage = "waiting"
    /\ AfterLoadStep([loads EXCEPT ![l] =
          verifyComponentImplementation(
              [loads[l] EXCEPT !.waits = @ + 1, !.waited = @ + loads[l].timeout],
              loads[l].retries - 1, implRegistered)], l)

\* the component's bundle registers its implementation
RegisterImplementation ==
    /\ canUseDOM
    /\ ~implRegistered
    /\ implRegistered' = TRUE
    /\ UNCHANGED <<canUseDOM, hasRenderedOnServer, shouldHydrate,
                   initialShouldHydrate, isLoaded, gateView, effectDeps, loads,
                   pathVars, styleVars, slotVars, mergeVars,
                   slotPathVars, childVars, epVars, contentVars, outerVars, prefetchVars>>

NextGate ==
    \/ Mount
    \/ \E b \in BOOLEAN : SetShouldHydrate(b)
    \/ \E l \in 1..MaxLoads : FetchAssetsResolved(l)
    \/ \E l \in 1..MaxLoads : FetchAssetsRejected(l)
    \/ \E l \in 1..MaxLoads : RetryTimeout(l)
    \/ RegisterImplementation


-----------------------------------------------------------------------------
(***************************************************************************)
(* Slot materializer (utils/slots.tsx)                                     *)
(* NumSlots instances of the SlotComponent of one generateSlot call, all   *)
(* rendered with the same props.id when labeled, so they share newTreePath *)
(* (key "base") and dynamicTreePath (key "dyn"). A registry value is       *)
(* undefined, null or an extension with its content; contents are "none"   *)
(* (no content), the base entry's "C0", or a fetched "A" or "B".           *)
(* Every mount of DynamicSlot runs useQuery, which is counted as one       *)
(* content fetch: the registry test of SlotComponent is the only           *)
(* deduplication the core itself performs.                                 *)
(***************************************************************************)
ContentJSONs == {"undef", "empty", "A", "B"}
ListContents == UNION {[1..k -> ContentJSONs] : k \in 0..2}
BaseExtensions == {NoExtension,
                   [kind |-> "ext", content |-> "none"],
                   [kind |-> "ext", content |-> "C0"]}

NoOutput == [kind |-> "unrendered", treePath |-> "none", content |-> "none"]
NullOutput == [kind |-> "null", treePath |-> "none", content |-> "none"]
LoaderOutput(treePath, content) ==
    [kind |-> "loader", treePath |-> treePath, content |-> content]

Falsy(ext) == ext.kind # "ext"

\* data?.listContent[k]?.contentJSON && JSON.parse(...), k counted from 0
ParsedAt(listContent, k) ==
    IF k + 1 > Len(listContent) THEN "undef" ELSE listContent[k + 1]

\* extensionContent: candidate 1 ?? candidate 0; "none" stands for every falsy result
extensionContentOf(listContent) ==
    LET first == ParsedAt(listContent, 1)
        second == ParsedAt(listContent, 0)
        chosen == IF first # "undef" THEN first ELSE second
    IN IF chosen \in {"undef", "empty"} THEN "none" ELSE chosen

\* the value DynamicSlot assigns to runtime.extensions[treePath]
MaterializedEntry(base, extensionContent) ==
    IF extensionContent = "none"
    THEN base
    ELSE IF base.kind = "ext"
         THEN [kind |-> "ext", content |-> extensionContent]
         ELSE [kind |-> "null", content |-> "none"]

DynamicSlotWritesUnlessLoading(slot, dyn) == slot.query # "loading"

\* whether a render of DynamicSlot reaches the assignment
DynamicSlotWrites(slot, dyn) == slot.query = "data"

\* one render of a mounted DynamicSlot: <<registry value, write log, slot>>;
\* slot.data is the extensionContent computed from the query's data
DynamicSlotRender(slot, base, dyn, log) ==
    IF DynamicSlotWrites(slot, dyn)
    THEN LET extensionContent == slot.data
         IN <<MaterializedEntry(base, extensionContent),
              Append(log, dyn.kind),
              [slot EXCEPT !.out = LoaderOutput("dyn", extensionContent)]>>
    ELSE <<dyn, log, [slot EXCEPT !.out = NullOutput]>>

\* whether SlotComponent goes through DynamicSlot
SlotNeedsDynamic(slot, dyn) == slot.hasId /\ Falsy(dyn)

InitSlots ==
    /\ baseExt \in BaseExtensions
    /\ dynExt = NoExtension
    /\ slots \in [1..NumSlots -> {[hasId |-> h, mounted |-> "none", query |-> "idle",
                                   data |-> "none", out |-> NoOutput] : h \in BOOLEAN}]
    /\ fetches = 0
    /\ dynWrites = <<>>
    /\ slotRenders = 0
    /\ mergeKey = "k"
    /\ mergeIn = NoMergeIn
    /\ mergedProps = NoProps
    /\ pathArgs = <<<<>>, <<>>, <<>>>>
    /\ pathOut = NoPathOut
    /\ debugCriticalCSS = "none"
    /\ styleRefs = <<>>
    /\ hasCriticalElement = FALSE
    /\ stylePhase = "init"
    /\ totalStylesCount = 0
    /\ loadedStyles = <<>>
    /\ stylesHydrated = FALSE
    /\ linkRel = <<>>
    /\ criticalPresent = FALSE
    /\ fired = <<>>
    /\ applyCount = 0
    /\ stepIt = 0
    /\ promoted = <<>>
    /\ manualInvoked = {}
    /\ canUseDOM = FALSE
    /\ hasRenderedOnServer = FALSE
    /\ shouldHydrate = FALSE
    /\ initialShouldHydrate = FALSE
    /\ isLoaded = FALSE
    /\ gateView = "unmounted"
    /\ effectDeps = <<>>
    /\ loads = <<>>
    /\ implRegistered = FALSE
    /\ slotPathArgs = NoSlotPathArgs
    /\ slotPathOut = NoSlotPathOut
    /\ childArgs = NoChildArgs
    /\ childOut = NoChildOut
    /\ epArgs = NoEpArgs
    /\ epOut = NoEpOut
    /\ contentArgs = <<>>
    /\ contentOut = NoContentOut
    /\ outerArgs = NoOuterArgs
    /\ outerOut = NoOuterOut
    /\ prefetchActive = FALSE
    /\ hooks = <<>>
    /\ pathsState = <<>>
    /\ pathCache = {}
    /\ routesCache = {}
    /\ routePromise = <<>>
    /\ inFlight = <<>>

\* SlotComponent of instance i renders (its first render, or a re-render
\* after a change of props or of the runtime context)
RenderSlot(i) ==
    /\ i \in DOMAIN slots
    /\ slots[i].mounted # "none" => slotRenders < MaxRenders
    /\ slotRenders' = IF slots[i].mounted = "none" THEN slotRenders ELSE slotRenders + 1
    /\ IF SlotNeedsDynamic(slots[i], dynExt)
       THEN IF slots[i].mounted = "dynamic"
            THEN LET r == DynamicSlotRender(slots[i], baseExt, dynExt, dynWrites)
                 IN /\ dynExt' = r[1]
                    /\ dynWrites' = r[2]
                    /\ slots' = [slots EXCEPT ![i] = r[3]]
                    /\ UNCHANGED fetches
            ELSE /\ slots' = [slots EXCEPT ![i] =
                        [@ EXCEPT !.mounted = "dynamic", !.query = "loading",
                                  !.data = "none", !.out = NullOutput]]
                 /\ fetches' = fetches + 1
                 /\ UNCHANGED <<dynExt, dynWrites>>
       ELSE LET extension == IF slots[i].hasId THEN dynExt ELSE baseExt
            IN /\ slots' = [slots EXCEPT ![i] =
                       [@ EXCEPT !.mounted = "loader", !.query = "idle", !.data = "none",
                                 !.out = LoaderOutput("base", extension.content)]]
               /\ UNCHANGED <<dynExt, dynWrites, fetches>>
    /\ UNCHANGED <<baseExt, pathVars, styleVars, gateVars, mergeVars,
                   slotPathVars, childVars, epVars, contentVars, outerVars, prefetchVars>>

\* the content fetch of instance i ends; useQuery re-renders its DynamicSlot
QueryResult(i, ok, listContent) ==
    /\ i \in DOMAIN slots
    /\ slots[i].mounted = "dynamic"
    /\ slots[i].query = "loading"
    /\ LET got == IF ok
                  THEN [slots[i] EXCEPT !.query = "data",
                                            !.data = extensionContentOf(listContent)]
                  ELSE [slots[i] EXCEPT !.query = "error"]
           r == DynamicSlotRender(got, baseExt, dynExt, dynWrites)
       IN /\ dynExt' = r[1]
          /\ dynWrites' = r[2]
          /\ slots' = [slots EXCEPT ![i] = r[3]]
    /\ UNCHANGED <<baseExt, fetches, slotRenders, pathVars, styleVars, gateVars, mergeVars,
                   slotPathVars, childVars, epVars, contentVars, outerVars, prefetchVars>>

\* DynamicSlot of instance i renders again on its own (an update of its
\* useQuery result), SlotComponent being memoized
RerenderDynamicSlot(i) ==
    /\ i \in DOMAIN slots
    /\ slots[i].mounted = "dynamic"
    /\ slots[i].query # "loading"
    /\ slotRenders < MaxRenders
    /\ slotRenders' = slotRenders + 1
    /\ LET r == DynamicSlotRender(slots[i], baseExt, dynExt, dynWrites)
       IN /\ dynExt' = r[1]
          /\ dynWrites' = r[2]
          /\ slots' = [slots EXCEPT ![i] = r[3]]
    /\ UNCHANGED <<baseExt, fetches, pathVars, styleVars, gateVars, mergeVars,
                   slotPathVars, childVars, epVars, contentVars, outerVars, prefetchVars>>

NextSlots ==
    \/ \E i \in 1..NumSlots : RenderSlot(i)
    \/ \E i \in 1..NumSlots, listContent \in ListContents : QueryResult(i, TRUE, listContent)
    \/ \E i \in 1..NumSlots : QueryResult(i, FALSE, <<>>)
    \/ \E i \in 1..NumSlots : RerenderDynamicSlot(i)

-----------------------------------------------------------------------------
(***************************************************************************)
(* Prop merger (components/ExtensionPoint/index.tsx, mergedProps)          *)
(* ramda's mergeDeepRight and reduce are computed as ramda computes them:  *)
(* per own key of the right object, the right value wins unless both       *)
(* values are objects, which are merged by the same rule.                  *)
(***************************************************************************)
Undefined(src) == [t |-> "undef", src |-> src, kids |-> NoKids]
Scalar(src) == [t |-> "scalar", src |-> src, kids |-> NoKids]
Array(src) == [t |-> "array", src |-> src, kids |-> NoKids]
Object(src, fields) ==
    [t |-> "object", src |-> 0,
     kids |-> [j \in SubKeys |-> IF j \in fields
                                 THEN [t |-> "scalar", src |-> src]
                                 ELSE AbsentLeaf]]
Objects(src) == {Object(src, fields) : fields \in SUBSET SubKeys}

\* what a source can give for one key
Values(src) == {Absent, Scalar(src), Array(src)} \cup Objects(src)

\* the object {key: value}; {} when the value is absent
Single(key, value) == [NoProps EXCEPT !.kids[key] = value]

IsObject(v) == v.t = "object"
Has(v) == v.t # "absent"

RECURSIVE mergeDeepRight(_, _)
mergeDeepRight(l, r) ==
    [l EXCEPT !.kids = [k \in DOMAIN l.kids |->
        IF ~Has(r.kids[k]) THEN l.kids[k]
        ELSE IF ~Has(l.kids[k]) THEN r.kids[k]
        ELSE IF IsObject(l.kids[k]) /\ IsObject(r.kids[k])
             THEN mergeDeepRight(l.kids[k], r.kids[k])
             ELSE r.kids[k]]]

RECURSIVE reduce(_, _)
\* reduce(mergeDeepRight, acc, list)
reduce(acc, list) ==
    IF list = <<>> THEN acc
    ELSE reduce(mergeDeepRight(acc, Head(list)), Tail(list))

\* appSettings = appName ? getSettings(appName) : {}
appSettingsOf(in) == IF in.appName = "app" THEN in.settings ELSE Object(1, {})

\* appSettings ? { appSettings } : {}   (an object, even an empty one, is truthy)
AppSettingsLayer(in) ==
    IF IsObject(appSettingsOf(in))
    THEN Single("appSettings", appSettingsOf(in))
    ELSE NoProps

\* { children, params, query, id, blockProps, ...parentProps } = props
ParentProps(key, in) ==
    IF key \in {"params", "query"} THEN NoProps ELSE Single(key, in.callSite)

\* { params, query }: both keys are own keys, undefined when not passed
RouteLayer(key, in) ==
    [NoProps EXCEPT
        !.kids["params"] = IF key = "params" /\ Has(in.callSite)
                           THEN in.callSite ELSE Undefined(6),
        !.kids["query"] = IF key = "query" /\ Has(in.callSite)
                          THEN in.callSite ELSE Undefined(6)]

\* the list handed to reduce, with content below blockProps
MergeLayersContentEarly(key, in) ==
    << AppSettingsLayer(in),
       ParentProps(key, in),
       Single(key, in.extensionProps),
       Single(key, in.content),
       Single(key, in.blockProps),
       RouteLayer(key, in) >>

\* the list handed to reduce
MergeLayers(key, in) ==
    << AppSettingsLayer(in),
       ParentProps(key, in),
       Single(key, in.extensionProps),
       Single(key, in.blockProps),
       Single(key, in.content),
       RouteLayer(key, in) >>

\* a value for the call site is tagged with the source it ends up in
CallSiteValues(key) == IF key \in {"params", "query"} THEN Values(6) ELSE Values(2)

\* no app name parsed from the component id, or getSettings(appName) giving
\* a falsy value or a settings object
AppCases == {<<"none", Absent>>} \cup ({"app"} \X ({Undefined(1)} \cup Objects(1)))

InitMerge ==
    /\ mergeKey \in Keys
    /\ mergeIn \in {[appName |-> a[1], settings |-> a[2], callSite |-> c,
                     extensionProps |-> e, blockProps |-> b, content |-> o] :
                        a \in AppCases,
                        c \in CallSiteValues(mergeKey),
                        e \in Values(3), b \in Values(4), o \in Values(5)}
    /\ mergedProps = NoProps
    /\ pathArgs = <<<<>>, <<>>, <<>>>>
    /\ pathOut = NoPathOut
    /\ debugCriticalCSS = "none"
    /\ styleRefs = <<>>
    /\ hasCriticalElement = FALSE
    /\ stylePhase = "init"
    /\ totalStylesCount = 0
    /\ loadedStyles = <<>>
    /\ stylesHydrated = FALSE
    /\ linkRel = <<>>
    /\ criticalPresent = FALSE
    /\ fired = <<>>
    /\ applyCount = 0
    /\ stepIt = 0
    /\ promoted = <<>>
    /\ manualInvoked = {}
    /\ canUseDOM = FALSE
    /\ hasRenderedOnServer = FALSE
    /\ shouldHydrate = FALSE
    /\ initialShouldHydrate = FALSE
    /\ isLoaded = FALSE
    /\ gateView = "unmounted"
    /\ effectDeps = <<>>
    /\ loads = <<>>
    /\ implRegistered = FALSE
    /\ baseExt = NoExtension
    /\ dynExt = NoExtension
    /\ slots = <<>>
    /\ fetches = 0
    /\ dynWrites = <<>>
    /\ slotRenders = 0
    /\ slotPathArgs = NoSlotPathArgs
    /\ slotPathOut = NoSlotPathOut
    /\ childArgs = NoChildArgs
    /\ childOut = NoChildOut
    /\ epArgs = NoEpArgs
    /\ epOut = NoEpOut
    /\ contentArgs = <<>>
    /\ contentOut = NoContentOut
    /\ outerArgs = NoOuterArgs
    /\ outerOut = NoOuterOut
    /\ prefetchActive = FALSE
    /\ hooks = <<>>
    /\ pathsState = <<>>
    /\ pathCache = {}
    /\ routesCache = {}
    /\ routePromise = <<>>
    /\ inFlight = <<>>

\* ExtensionPoint renders: the useMemo computes mergedProps
RenderExtensionPoint ==
    /\ mergedProps = NoProps
    /\ mergedProps' = reduce(NoProps, MergeLayers(mergeKey, mergeIn))
    /\ UNCHANGED <<mergeKey, mergeIn, pathVars, styleVars, gateVars, slotVars,
                   slotPathVars, childVars, epVars, contentVars, outerVars, prefetchVars>>

NextMerge == RenderExtensionPoint

-----------------------------------------------------------------------------
(***************************************************************************)
(* Slot tree paths (utils/slots.tsx, generateSlot and SlotComponent)       *)
(* A tree path is a concatenation of pieces chosen so that 'slot', '-slot' *)
(* and '#slot7' occur at any place; the string functions work on the       *)
(* characters, with JavaScript's indexOf, includes and substring.          *)
(***************************************************************************)
SlotWord == <<"s", "l", "o", "t">>
Dash == <<"-">>
Hash == <<"#">>
Pieces == {<<"a">>, Slash, Dash, Hash, SlotWord, <<"7">>}
SlotValueChars == {"b", "#"}
\* props.id: absent (falsy) or "7"
SlotIds == {<<>>, <<"7">>}

RECURSIVE Flatten(_)
Flatten(ps) == IF ps = <<>> THEN <<>> ELSE Head(ps) \o Flatten(Tail(ps))

TreePaths(n) == {Flatten(ps) : ps \in UNION {[1..k -> Pieces] : k \in 0..n}}
SlotValues(n) == UNION {[1..k -> SlotValueChars] : k \in 0..n}

\* sub occurs in s at the 0-based position k
OccursAt(s, sub, k) ==
    k + Len(sub) <= Len(s) /\ SubSeq(s, k + 1, k + Len(sub)) = sub

\* String.prototype.indexOf: the first position, or -1
indexOf(s, sub) ==
    IF \E k \in 0..Len(s) : OccursAt(s, sub, k)
    THEN CHOOSE k \in 0..Len(s) :
            OccursAt(s, sub, k) /\ \A j \in 0..(k - 1) : ~OccursAt(s, sub, j)
    ELSE -1

includes(s, sub) == indexOf(s, sub) # -1

\* String.prototype.substring: arguments are clamped to 0..length and
\* swapped when start > end
substring(s, start, end) ==
    LET Clamp(n) == IF n < 0 THEN 0 ELSE IF n > Len(s) THEN Len(s) ELSE n
        lo == IF Clamp(start) <= Clamp(end) THEN Clamp(start) ELSE Clamp(end)
        hi == IF Clamp(start) <= Clamp(end) THEN Clamp(end) ELSE Clamp(start)
    IN SubSeq(s, lo + 1, hi)

\* generateSlot: the tree path shared by the instances of the slot
newTreePath(treePath, slotValue) ==
    LET hasSlotMarker == indexOf(treePath, SlotWord) > -1
        treePathWithoutSlotMarker ==
            IF hasSlotMarker
            THEN substring(treePath, 0, indexOf(treePath, Dash \o SlotWord))
            ELSE treePath
    IN treePathWithoutSlotMarker \o Slash \o slotValue

dynamicTreePathSwapped(base, slotValue, id) ==
    base \o (IF includes(slotValue, Hash) THEN Hash ELSE Dash) \o SlotWord \o id

dynamicTreePathAlwaysHash(base, slotValue, id) ==
    base \o Hash \o SlotWord \o id

\* SlotComponent, for a truthy props.id
dynamicTreePath(base, slotValue, id) ==
    LET hasLabel == includes(slotValue, Hash)
    IN base \o (IF hasLabel THEN Dash ELSE Hash) \o SlotWord \o id

InitSlotPath ==
    /\ slotPathArgs \in [treePath : TreePaths(MaxPieces),
                         slotValue : SlotValues(MaxLen), id : SlotIds]
    /\ slotPathOut = NoSlotPathOut
    /\ pathArgs = <<<<>>, <<>>, <<>>>>
    /\ pathOut = NoPathOut
    /\ canUseDOM = FALSE
    /\ hasRenderedOnServer = FALSE
    /\ shouldHydrate = FALSE
    /\ initialShouldHydrate = FALSE
    /\ isLoaded = FALSE
    /\ gateView = "unmounted"
    /\ effectDeps = <<>>
    /\ loads = <<>>
    /\ implRegistered = FALSE
    /\ debugCriticalCSS = "none"
    /\ styleRefs = <<>>
    /\ hasCriticalElement = FALSE
    /\ stylePhase = "init"
    /\ totalStylesCount = 0
    /\ loadedStyles = <<>>
    /\ stylesHydrated = FALSE
    /\ linkRel = <<>>
    /\ criticalPresent = FALSE
    /\ fired = <<>>
    /\ applyCount = 0
    /\ stepIt = 0
    /\ promoted = <<>>
    /\ manualInvoked = {}
    /\ baseExt = NoExtension
    /\ dynExt = NoExtension
    /\ slots = <<>>
    /\ fetches = 0
    /\ dynWrites = <<>>
    /\ slotRenders = 0
    /\ mergeKey = "k"
    /\ mergeIn = NoMergeIn
    /\ mergedProps = NoProps
    /\ childArgs = NoChildArgs
    /\ childOut = NoChildOut
    /\ epArgs = NoEpArgs
    /\ epOut = NoEpOut
    /\ contentArgs = <<>>
    /\ contentOut = NoContentOut
    /\ outerArgs = NoOuterArgs
    /\ outerOut = NoOuterOut
    /\ prefetchActive = FALSE
    /\ hooks = <<>>
    /\ pathsState = <<>>
    /\ pathCache = {}
    /\ routesCache = {}
    /\ routePromise = <<>>
    /\ inFlight = <<>>

\* generateSlot is called and its SlotComponent rendered with props.id
SlotComponent ==
    /\ ~slotPathOut.done
    /\ LET base == newTreePath(slotPathArgs.treePath, slotPathArgs.slotValue)
           labeled == slotPathArgs.id # <<>>
       IN slotPathOut' =
            [done |-> TRUE, newTreePath |-> base, labeled |-> labeled,
             dynamicTreePath |->
                IF labeled
                THEN dynamicTreePath(base, slotPathArgs.slotValue, slotPathArgs.id)
                ELSE <<>>]
    /\ UNCHANGED <<slotPathArgs, pathVars, styleVars, gateVars, slotVars,
                   mergeVars, childVars, epVars, contentVars, outerVars, prefetchVars>>

NextSlotPath == SlotComponent

-----------------------------------------------------------------------------
(***************************************************************************)
(* Tree resolver (components/ExtensionPoint/index.tsx, getChildExtensions) *)
(* One call on one registry entry. A block's children is "undefined",      *)
(* "true" or "false"; its blockRole is "undefined" or one of the roles.    *)
(***************************************************************************)
BlockIds == {<<"x">>, <<"y">>}
ChildrenFlags == {"undefined", "true", "false"}
BlockRoles == {"undefined", "children", "around", "before", "after", "slot"}
Blocks == [extensionPointId : BlockIds, children : ChildrenFlags,
           blockRole : BlockRoles]
BlockLists(n) == UNION {[1..k -> Blocks] : k \in 0..n}
\* runtime.extensions[treePath]: undefined, or an extension whose blocks are
\* undefined or a list
ChildRegistryEntries(n) ==
    {[kind |-> "undefined", hasBlocks |-> FALSE, blocks |-> <<>>],
     [kind |-> "ext", hasBlocks |-> FALSE, blocks |-> <<>>]}
    \cup {[kind |-> "ext", hasBlocks |-> TRUE, blocks |-> bs] : bs \in BlockLists(n)}
ChildTreePaths == {<<"x">>, <<"x", "/", "y">>}
HookTreePaths == {<<>>, <<"y">>}

isChild(block) ==
    \/ block.children = "undefined"
    \/ block.children = "true"
    \/ block.blockRole = "children"

isNotSlotAlways(block) == TRUE
isNotSlot(block) == block.blockRole # "slot"

IsChildBlock(block) == isChild(block) /\ isNotSlot(block)

\* the newTreePath of ExtensionPoint:
\* mountTreePath(id, props.treePath || treePathFromHook.treePath)
ExtensionPointTreePath(id, propsTreePath, hookTreePath) ==
    mountTreePath(id, IF propsTreePath # <<>> THEN propsTreePath ELSE hookTreePath)

\* the <ExtensionPoint> element made for the i-th child block, with the tree
\* path at which that ExtensionPoint looks its extension up
ChildElement(child, i, treePath, hookTreePath) ==
    [key |-> i - 1, id |-> child.extensionPointId, treePath |-> treePath,
     childTreePath |-> mountTreePath(child.extensionPointId, treePath),
     resolvesAt |-> ExtensionPointTreePath(child.extensionPointId, treePath,
                                           hookTreePath)]

getChildExtensions(extension, treePath, hookTreePath) ==
    IF extension.kind = "undefined" \/ ~extension.hasBlocks
    THEN [kind |-> "undefined", elements |-> <<>>]
    ELSE LET childBlocks == SelectSeq(extension.blocks, IsChildBlock)
         IN [kind |-> "list",
             elements |-> [i \in 1..Len(childBlocks) |->
                             ChildElement(childBlocks[i], i, treePath, hookTreePath)]]

InitChildren ==
    /\ childArgs \in [treePath : ChildTreePaths, hookTreePath : HookTreePaths,
                      extension : ChildRegistryEntries(MaxBlocks)]
    /\ childOut = NoChildOut
    /\ pathArgs = <<<<>>, <<>>, <<>>>>
    /\ pathOut = NoPathOut
    /\ canUseDOM = FALSE
    /\ hasRenderedOnServer = FALSE
    /\ shouldHydrate = FALSE
    /\ initialShouldHydrate = FALSE
    /\ isLoaded = FALSE
    /\ gateView = "unmounted"
    /\ effectDeps = <<>>
    /\ loads = <<>>
    /\ implRegistered = FALSE
    /\ debugCriticalCSS = "none"
    /\ styleRefs = <<>>
    /\ hasCriticalElement = FALSE
    /\ stylePhase = "init"
    /\ totalStylesCount = 0
    /\ loadedStyles = <<>>
    /\ stylesHydrated = FALSE
    /\ linkRel = <<>>
    /\ criticalPresent = FALSE
    /\ fired = <<>>
    /\ applyCount = 0
    /\ stepIt = 0
    /\ promoted = <<>>
    /\ manualInvoked = {}
    /\ baseExt = NoExtension
    /\ dynExt = NoExtension
    /\ slots = <<>>
    /\ fetches = 0
    /\ dynWrites = <<>>
    /\ slotRenders = 0
    /\ mergeKey = "k"
    /\ mergeIn = NoMergeIn
    /\ mergedProps = NoProps
    /\ slotPathArgs = NoSlotPathArgs
    /\ slotPathOut = NoSlotPathOut
    /\ epArgs = NoEpArgs
    /\ epOut = NoEpOut
    /\ contentArgs = <<>>
    /\ contentOut = NoContentOut
    /\ outerArgs = NoOuterArgs
    /\ outerOut = NoOuterOut
    /\ prefetchActive = FALSE
    /\ hooks = <<>>
    /\ pathsState = <<>>
    /\ pathCache = {}
    /\ routesCache = {}
    /\ routePromise = <<>>
    /\ inFlight = <<>>

CallGetChildExtensions ==
    /\ ~childOut.done
    /\ childOut' = [done |-> TRUE,
                    result |-> getChildExtensions(childArgs.extension,
                                                  childArgs.treePath,
                                                  childArgs.hookTreePath)]
    /\ UNCHANGED <<childArgs, pathVars, styleVars, gateVars, slotVars, mergeVars,
                   slotPathVars, epVars, contentVars, outerVars, prefetchVars>>

NextChildren == CallGetChildExtensions

-----------------------------------------------------------------------------
(***************************************************************************)
(* ExtensionPoint (components/ExtensionPoint/index.tsx): what one render   *)
(* returns. The registry is undefined or holds one key, whose value is     *)
(* null or an extension.                                                   *)
(***************************************************************************)
EpIds == {<<"x">>, <<"y">>}
EpTreePaths == {<<>>, <<"x">>, <<"x", "/", "y">>}
EpKeys == {<<"x">>, <<"y">>, <<"x", "/", "y">>, <<"y", "/", "x">>,
           <<"x", "/", "y", "/", "x">>}
EpChildBlock == [extensionPointId |-> <<"y">>, children |-> "undefined",
                 blockRole |-> "undefined"]
\* extension.blocks: undefined, an empty list or a list with a child block
EpBlocks == {<<FALSE, <<>>>>, <<TRUE, <<>>>>, <<TRUE, <<EpChildBlock>>>>}
EpValues ==
    {EpNull}
    \cup {[kind |-> "ext", component |-> c, render |-> r, composition |-> o,
           hasBlocks |-> b[1], blocks |-> b[2]] :
            c \in {"null", "X"}, r \in {"null", "client"},
            o \in {"undefined", "children"}, b \in EpBlocks}
EpRegistries ==
    {[defined |-> FALSE, key |-> <<>>, value |-> EpNull]}
    \cup [defined : {TRUE}, key : EpKeys, value : EpValues]
NoEpExtension == [EpNull EXCEPT !.kind = "undefined"]

\* runtime.extensions && runtime.extensions[newTreePath]
ExtensionAt(registry, treePath) ==
    IF registry.defined /\ registry.key = treePath THEN registry.value
    ELSE NoEpExtension

RendersNothingWithoutComponent(extension) ==
    extension.kind # "ext" \/ extension.component = "null"

\* `if (!extension) return null`
RendersNothing(extension) == extension.kind # "ext"

\* the useMemo of componentChildren: the children of the registry or the
\* children passed at the call site
componentChildren(extension, treePath, hookTreePath) ==
    LET isCompositionChildren ==
            extension.kind = "ext" /\ extension.composition = "children"
    IN IF isCompositionChildren /\ extension.hasBlocks
       THEN [from |-> "registry",
             elements |-> getChildExtensions(extension, treePath, hookTreePath).elements]
       ELSE [from |-> "callSite", elements |-> <<>>]

ExtensionPointElement(args) ==
    LET treePath == ExtensionPointTreePath(args.id, args.treePath, args.hookTreePath)
        extension == ExtensionAt(args.registry, treePath)
        isRootTreePath == indexOf(treePath, Slash) = -1
    IN IF RendersNothing(extension) THEN NothingRendered
       ELSE [kind |-> "element", treePath |-> treePath,
             loaderChildren |-> IF extension.component # "null" THEN "children"
                                ELSE IF isRootTreePath THEN "GenericPreview"
                                ELSE "Loading",
             componentChildren |-> componentChildren(extension, treePath,
                                                     args.hookTreePath),
             noSSR |-> extension.render = "client" /\ ~args.amp,
             loadingBar |-> args.preview /\ isRootTreePath,
             inspected |-> args.inspect]

InitExtensionPoint ==
    /\ epArgs \in [id : EpIds, treePath : EpTreePaths, hookTreePath : HookTreePaths,
                   registry : EpRegistries, amp : BOOLEAN, preview : BOOLEAN,
                   inspect : BOOLEAN]
    /\ epOut = NoEpOut
    /\ pathArgs = <<<<>>, <<>>, <<>>>>
    /\ pathOut = NoPathOut
    /\ canUseDOM = FALSE
    /\ hasRenderedOnServer = FALSE
    /\ shouldHydrate = FALSE
    /\ initialShouldHydrate = FALSE
    /\ isLoaded = FALSE
    /\ gateView = "unmounted"
    /\ effectDeps = <<>>
    /\ loads = <<>>
    /\ implRegistered = FALSE
    /\ debugCriticalCSS = "none"
    /\ styleRefs = <<>>
    /\ hasCriticalElement = FALSE
    /\ stylePhase = "init"
    /\ totalStylesCount = 0
    /\ loadedStyles = <<>>
    /\ stylesHydrated = FALSE
    /\ linkRel = <<>>
    /\ criticalPresent = FALSE
    /\ fired = <<>>
    /\ applyCount = 0
    /\ stepIt = 0
    /\ promoted = <<>>
    /\ manualInvoked = {}
    /\ baseExt = NoExtension
    /\ dynExt = NoExtension
    /\ slots = <<>>
    /\ fetches = 0
    /\ dynWrites = <<>>
    /\ slotRenders = 0
    /\ mergeKey = "k"
    /\ mergeIn = NoMergeIn
    /\ mergedProps = NoProps
    /\ slotPathArgs = NoSlotPathArgs
    /\ slotPathOut = NoSlotPathOut
    /\ childArgs = NoChildArgs
    /\ childOut = NoChildOut
    /\ contentArgs = <<>>
    /\ contentOut = NoContentOut
    /\ outerArgs = NoOuterArgs
    /\ outerOut = NoOuterOut
    /\ prefetchActive = FALSE
    /\ hooks = <<>>
    /\ pathsState = <<>>
    /\ pathCache = {}
    /\ routesCache = {}
    /\ routePromise = <<>>
    /\ inFlight = <<>>

ExtensionPoint ==
    /\ ~epOut.done
    /\ epOut' = [done |-> TRUE, element |-> ExtensionPointElement(epArgs)]
    /\ UNCHANGED <<epArgs, pathVars, styleVars, gateVars, slotVars, mergeVars,
                   slotPathVars, childVars, contentVars, outerVars, prefetchVars>>

NextExtensionPoint == ExtensionPoint

-----------------------------------------------------------------------------
(***************************************************************************)
(* Content choice of DynamicSlot (utils/slots.tsx, extensionContent)       *)
(* One resolved content query; an entry is its contentJSON, as in the slot *)
(* materializer.                                                           *)
(***************************************************************************)
ContentLists(n) == UNION {[1..k -> ContentJSONs] : k \in 0..n}

InitContent ==
    /\ contentArgs \in ContentLists(MaxEntries)
    /\ contentOut = NoContentOut
    /\ canUseDOM = FALSE
    /\ hasRenderedOnServer = FALSE
    /\ shouldHydrate = FALSE
    /\ initialShouldHydrate = FALSE
    /\ isLoaded = FALSE
    /\ gateView = "unmounted"
    /\ effectDeps = <<>>
    /\ loads = <<>>
    /\ implRegistered = FALSE
    /\ pathArgs = <<<<>>, <<>>, <<>>>>
    /\ pathOut = NoPathOut
    /\ debugCriticalCSS = "none"
    /\ styleRefs = <<>>
    /\ hasCriticalElement = FALSE
    /\ stylePhase = "init"
    /\ totalStylesCount = 0
    /\ loadedStyles = <<>>
    /\ stylesHydrated = FALSE
    /\ linkRel = <<>>
    /\ criticalPresent = FALSE
    /\ fired = <<>>
    /\ applyCount = 0
    /\ stepIt = 0
    /\ promoted = <<>>
    /\ manualInvoked = {}
    /\ baseExt = NoExtension
    /\ dynExt = NoExtension
    /\ slots = <<>>
    /\ fetches = 0
    /\ dynWrites = <<>>
    /\ slotRenders = 0
    /\ mergeKey = "k"
    /\ mergeIn = NoMergeIn
    /\ mergedProps = NoProps
    /\ slotPathArgs = NoSlotPathArgs
    /\ slotPathOut = NoSlotPathOut
    /\ childArgs = NoChildArgs
    /\ childOut = NoChildOut
    /\ epArgs = NoEpArgs
    /\ epOut = NoEpOut
    /\ outerArgs = NoOuterArgs
    /\ outerOut = NoOuterOut
    /\ prefetchActive = FALSE
    /\ hooks = <<>>
    /\ pathsState = <<>>
    /\ pathCache = {}
    /\ routesCache = {}
    /\ routePromise = <<>>
    /\ inFlight = <<>>

DeriveExtensionContent ==
    /\ ~contentOut.done
    /\ contentOut' = [done |-> TRUE, extensionContent |-> extensionContentOf(contentArgs)]
    /\ UNCHANGED <<contentArgs, pathVars, styleVars, gateVars, slotVars, mergeVars,
                   slotPathVars, childVars, epVars, outerVars, prefetchVars>>

NextContent == DeriveExtensionContent

-----------------------------------------------------------------------------
(***************************************************************************)
(* Outer extensions (components/ExtensionPoint/index.tsx,                  *)
(* withOuterExtensions). Elements are records tagged "node" (the element   *)
(* passed in), "wrapped" (the Fragment) and "around" (an ExtensionPoint    *)
(* with the accumulated element as its child).                             *)
(***************************************************************************)
OuterIds == {"p", "q"}
OuterIdLists(n) == UNION {[1..k -> OuterIds] : k \in 0..n}
NodeElement == [tag |-> "node"]

\* ids.map(id => <ExtensionPoint id={id} treePath={treePath} .../>)
OuterElements(ids, treePath) ==
    [i \in 1..Len(ids) |-> [id |-> ids[i], treePath |-> treePath]]

WrappedElement(args) ==
    [tag |-> "wrapped",
     before |-> OuterElements(args.before, args.treePath),
     element |-> NodeElement,
     spacer |-> indexOf(args.treePath, Slash) = -1,
     lazyFooter |-> args.lazyFooter,
     after |-> OuterElements(args.after, args.treePath)]

AroundElement(aroundId, acc, treePath) ==
    [tag |-> "around", id |-> aroundId, treePath |-> treePath, child |-> acc]

RECURSIVE aroundReduceRight(_, _, _)
aroundReduceRight(around, acc, treePath) ==
    IF around = <<>> THEN acc
    ELSE AroundElement(Head(around), aroundReduceRight(Tail(around), acc, treePath),
                       treePath)

RECURSIVE aroundReduce(_, _, _)
\* around.reduce((acc, aroundId) => <ExtensionPoint id={aroundId}>{acc}</...>, wrapped)
aroundReduce(around, acc, treePath) ==
    IF around = <<>> THEN acc
    ELSE aroundReduce(Tail(around), AroundElement(Head(around), acc, treePath),
                      treePath)

withOuterExtensions(args) ==
    IF Len(args.before) = 0 /\ Len(args.after) = 0 /\ Len(args.around) = 0
    THEN NodeElement
    ELSE aroundReduce(args.around, WrappedElement(args), args.treePath)

InitOuter ==
    /\ outerArgs \in [after : OuterIdLists(MaxOuter), around : OuterIdLists(MaxOuter),
                      before : OuterIdLists(MaxOuter),
                      treePath : {<<"x">>, <<"x", "/", "y">>},
                      lazyFooter : BOOLEAN]
    /\ outerOut = NoOuterOut
    /\ canUseDOM = FALSE
    /\ hasRenderedOnServer = FALSE
    /\ shouldHydrate = FALSE
    /\ initialShouldHydrate = FALSE
    /\ isLoaded = FALSE
    /\ gateView = "unmounted"
    /\ effectDeps = <<>>
    /\ loads = <<>>
    /\ implRegistered = FALSE
    /\ pathArgs = <<<<>>, <<>>, <<>>>>
    /\ pathOut = NoPathOut
    /\ debugCriticalCSS = "none"
    /\ styleRefs = <<>>
    /\ hasCriticalElement = FALSE
    /\ stylePhase = "init"
    /\ totalStylesCount = 0
    /\ loadedStyles = <<>>
    /\ stylesHydrated = FALSE
    /\ linkRel = <<>>
    /\ criticalPresent = FALSE
    /\ fired = <<>>
    /\ applyCount = 0
    /\ stepIt = 0
    /\ promoted = <<>>
    /\ manualInvoked = {}
    /\ baseExt = NoExtension
    /\ dynExt = NoExtension
    /\ slots = <<>>
    /\ fetches = 0
    /\ dynWrites = <<>>
    /\ slotRenders = 0
    /\ mergeKey = "k"
    /\ mergeIn = NoMergeIn
    /\ mergedProps = NoProps
    /\ slotPathArgs = NoSlotPathArgs
    /\ slotPathOut = NoSlotPathOut
    /\ childArgs = NoChildArgs
    /\ childOut = NoChildOut
    /\ epArgs = NoEpArgs
    /\ epOut = NoEpOut
    /\ contentArgs = <<>>
    /\ contentOut = NoContentOut
    /\ prefetchActive = FALSE
    /\ hooks = <<>>
    /\ pathsState = <<>>
    /\ pathCache = {}
    /\ routesCache = {}
    /\ routePromise = <<>>
    /\ inFlight = <<>>

CallWithOuterExtensions ==
    /\ ~outerOut.done
    /\ outerOut' = [done |-> TRUE, element |-> withOuterExtensions(outerArgs)]
    /\ UNCHANGED <<outerArgs, pathVars, styleVars, gateVars, slotVars, mergeVars,
                   slotPathVars, childVars, epVars, contentVars, prefetchVars>>

NextOuter == CallWithOuterExtensions

-----------------------------------------------------------------------------
(***************************************************************************)
(* Route prefetch: usePrefetchAttempt and the prefetchRequests tasks it    *)
(* queues (uriSwitchLink.ts).  One thread: every action is one synchronous *)
(* run between two suspension points.                                      *)
(***************************************************************************)
Hooks == 1..NumHooks
PrefetchPaths == {"/a", "/b"}
PrefetchPages == {"home", "ghost"}
\* runtime.pages: the pages that have a declarer
DeclaredPages == {"home"}
\* href as characters: a relative and an absolute one
Hrefs == {<<"/", "a">>, <<"h", "t", "t", "p">>}
\* the page prop of the hook
PageProps == {"undefined"} \cup DeclaredPages
\* what getPageToNavigate settles with: a rejection, null, or navigation
\* data with or without a page
LookupOutcomes == {"rejected", "null", "undefined"} \cup PrefetchPages

IsNullish(x) == x \in {"null", "undefined"}

NoPathState == [defined |-> FALSE, fetching |-> FALSE, page |-> "undefined"]
NoValidCache == [pathValid |-> FALSE, routeValid |-> FALSE]
IdleHook(canPrefetch) ==
    [canPrefetch |-> canPrefetch, hasTried |-> FALSE, pc |-> "idle",
     path |-> "none", page |-> "undefined", validCache |-> NoValidCache,
     navigationPage |-> "undefined", awaited |-> "none"]

getCacheValidData(path) ==
    LET page == pathsState[path].page
    IN IF IsNullish(page)
       THEN NoValidCache
       ELSE [pathValid |-> <<page, path>> \in pathCache,
             routeValid |-> page \in routesCache]

\* href && href[0] !== '/'
IsAbsolute(href) == href # <<>> /\ href[1] # "/"

InitPrefetch ==
    /\ prefetchActive \in BOOLEAN
    /\ hooks \in [Hooks -> {IdleHook(c) : c \in BOOLEAN}]
    /\ pathsState = [p \in PrefetchPaths |-> NoPathState]
    /\ pathCache = {}
    /\ routesCache = {}
    /\ routePromise = [p \in PrefetchPages |-> "null"]
    /\ inFlight = [p \in PrefetchPages |-> 0]
    /\ canUseDOM = FALSE
    /\ hasRenderedOnServer = FALSE
    /\ shouldHydrate = FALSE
    /\ initialShouldHydrate = FALSE
    /\ isLoaded = FALSE
    /\ gateView = "unmounted"
    /\ effectDeps = <<>>
    /\ loads = <<>>
    /\ implRegistered = FALSE
    /\ pathArgs = <<<<>>, <<>>, <<>>>>
    /\ pathOut = NoPathOut
    /\ debugCriticalCSS = "none"
    /\ styleRefs = <<>>
    /\ hasCriticalElement = FALSE
    /\ stylePhase = "init"
    /\ totalStylesCount = 0
    /\ loadedStyles = <<>>
    /\ stylesHydrated = FALSE
    /\ linkRel = <<>>
    /\ criticalPresent = FALSE
    /\ fired = <<>>
    /\ applyCount = 0
    /\ stepIt = 0
    /\ promoted = <<>>
    /\ manualInvoked = {}
    /\ baseExt = NoExtension
    /\ dynExt = NoExtension
    /\ slots = <<>>
    /\ fetches = 0
    /\ dynWrites = <<>>
    /\ slotRenders = 0
    /\ mergeKey = "k"
    /\ mergeIn = NoMergeIn
    /\ mergedProps = NoProps
    /\ slotPathArgs = NoSlotPathArgs
    /\ slotPathOut = NoSlotPathOut
    /\ childArgs = NoChildArgs
    /\ childOut = NoChildOut
    /\ epArgs = NoEpArgs
    /\ epOut = NoEpOut
    /\ contentArgs = <<>>
    /\ contentOut = NoContentOut
    /\ outerArgs = NoOuterArgs
    /\ outerOut = NoOuterOut

OtherThanPrefetch ==
    <<pathVars, styleVars, gateVars, slotVars, mergeVars, slotPathVars,
      childVars, epVars, contentVars, outerVars>>

\* the setTimeout of the waitToPrefetch effect
WaitElapsed(h) ==
    /\ ~hooks[h].canPrefetch
    /\ hooks' = [hooks EXCEPT ![h].canPrefetch = TRUE]
    /\ UNCHANGED <<prefetchActive, pathsState, pathCache, routesCache,
                   routePromise, inFlight, OtherThanPrefetch>>

attemptPrefetch(h, href, path, page) ==
    LET hook == hooks[h]
        validCache == getCacheValidData(path)
    IN /\ hook.pc = "idle"
       /\ IF hook.hasTried \/ ~prefetchActive \/ ~hook.canPrefetch
          THEN UNCHANGED <<hooks, pathsState>>
          ELSE IF IsAbsolute(href)
          THEN UNCHANGED <<hooks, pathsState>>
          ELSE IF pathsState[path].fetching
          THEN /\ hooks' = [hooks EXCEPT ![h].hasTried = TRUE]
               /\ UNCHANGED pathsState
          ELSE IF validCache.pathValid /\ validCache.routeValid
          THEN /\ hooks' = [hooks EXCEPT ![h].hasTried = TRUE]
               /\ UNCHANGED pathsState
          ELSE /\ pathsState' =
                     IF ~validCache.pathValid
                     THEN [pathsState EXCEPT ![path] =
                              [defined |-> TRUE, fetching |-> TRUE,
                               page |-> "undefined"]]
                     ELSE pathsState
               /\ hooks' = [hooks EXCEPT ![h] =
                              [hook EXCEPT !.hasTried = TRUE, !.pc = "queued",
                                           !.path = path, !.page = page,
                                           !.validCache = validCache]]
       /\ UNCHANGED <<prefetchActive, pathCache, routesCache, routePromise,
                      inFlight, OtherThanPrefetch>>

\* the queue starts the task: prefetchRequests up to its first await, with
\* the synchronous part of maybeUpdatePathCache
StartPrefetchRequests(h) ==
    LET hook == hooks[h]
    IN /\ hook.pc = "queued"
       /\ hooks' =
            IF ~prefetchActive
            THEN [hooks EXCEPT ![h].pc = "done"]
            ELSE IF hook.validCache.pathValid
            THEN [hooks EXCEPT ![h].pc = "resume",
                               ![h].navigationPage = pathsState[hook.path].page]
            ELSE [hooks EXCEPT ![h].pc = "lookup"]
       /\ UNCHANGED <<prefetchActive, pathsState, pathCache, routesCache,
                      routePromise, inFlight, OtherThanPrefetch>>

\* getPageToNavigate settles and maybeUpdatePathCache runs to its end; a
\* rejection leaves maybeUpdatePathCache, and prefetchRequests, by throwing
maybeUpdatePathCache(h, outcome) ==
    LET hook == hooks[h]
        navigationPage ==
            IF hook.page # "undefined" THEN hook.page
            ELSE IF outcome = "null" THEN "undefined" ELSE outcome
        returnsNull == outcome = "null" \/ IsNullish(navigationPage)
    IN /\ hook.pc = "lookup"
       /\ IF outcome = "rejected"
          THEN /\ hooks' = [hooks EXCEPT ![h].pc = "failed"]
               /\ UNCHANGED <<pathsState, pathCache>>
          ELSE /\ pathsState' = [pathsState EXCEPT ![hook.path] =
                                   [defined |-> TRUE, fetching |-> FALSE,
                                    page |-> navigationPage]]
               /\ pathCache' = IF returnsNull THEN pathCache
                               ELSE pathCache \cup {<<navigationPage, hook.path>>}
               /\ hooks' = [hooks EXCEPT
                              ![h].pc = "resume",
                              ![h].navigationPage =
                                  IF returnsNull THEN "null" ELSE navigationPage]
       /\ UNCHANGED <<prefetchActive, routesCache, routePromise, inFlight,
                      OtherThanPrefetch>>

ShouldFetchRouteDataIgnoringPromise(routeDataCache, routePromiseValue) ==
    ~routeDataCache

\* !routeDataCache && !routePromiseValue
ShouldFetchRouteData(routeDataCache, routePromiseValue) ==
    ~routeDataCache /\ routePromiseValue = "null"

\* prefetchRequests from the first await to the next one
ResumePrefetchRequests(h) ==
    LET hook == hooks[h]
        navigationPage == hook.navigationPage
        routeDataCache == navigationPage \in routesCache
        starts == ShouldFetchRouteData(routeDataCache, routePromise[navigationPage])
        globalRouteDataState ==
            IF starts THEN "pending" ELSE routePromise[navigationPage]
    IN /\ hook.pc = "resume"
       /\ pathsState' = [pathsState EXCEPT ![hook.path] =
                            [defined |-> TRUE, fetching |-> FALSE,
                             page |-> navigationPage]]
       /\ IF IsNullish(navigationPage) \/ navigationPage \notin DeclaredPages
          THEN /\ hooks' = [hooks EXCEPT ![h].pc = "done"]
               /\ UNCHANGED <<routePromise, inFlight>>
          ELSE /\ routePromise' =
                     [routePromise EXCEPT ![navigationPage] = globalRouteDataState]
               /\ inFlight' = IF starts
                              THEN [inFlight EXCEPT ![navigationPage] = @ + 1]
                              ELSE inFlight
               /\ hooks' =
                     IF globalRouteDataState # "null"
                     THEN [hooks EXCEPT ![h].pc = "awaitRoute",
                                        ![h].awaited = globalRouteDataState]
                     ELSE IF ~routeDataCache
                     THEN [hooks EXCEPT ![h].pc = "done"]
                     ELSE [hooks EXCEPT ![h].pc = "fetchComponents"]
       /\ UNCHANGED <<prefetchActive, pathCache, routesCache, OtherThanPrefetch>>

\* the promise of fetchRouteData settles; its then callback stores the data
FetchRouteDataSettles(page, ok) ==
    /\ routePromise[page] = "pending"
    /\ inFlight[page] > 0
    /\ inFlight' = [inFlight EXCEPT ![page] = @ - 1]
    /\ routePromise' = [routePromise EXCEPT ![page] =
                           IF ok THEN "resolved" ELSE "rejected"]
    /\ routesCache' = IF ok THEN routesCache \cup {page} ELSE routesCache
    /\ hooks' = [h \in Hooks |->
                   IF /\ hooks[h].pc = "awaitRoute"
                      /\ hooks[h].navigationPage = page
                      /\ hooks[h].awaited = "pending"
                   THEN [hooks[h] EXCEPT !.awaited =
                            IF ok THEN "resolved" ELSE "rejected"]
                   ELSE hooks[h]]
    /\ UNCHANGED <<prefetchActive, pathsState, pathCache, OtherThanPrefetch>>

\* the finally callback of the promise
FinallyCallback(page) ==
    /\ routePromise[page] \in {"resolved", "rejected"}
    /\ routePromise' = [routePromise EXCEPT ![page] = "null"]
    /\ UNCHANGED <<prefetchActive, hooks, pathsState, pathCache, routesCache,
                   inFlight, OtherThanPrefetch>>

\* prefetchRequests after `await globalRouteDataState.promise`
RouteAwaitResumes(h) ==
    LET hook == hooks[h]
    IN /\ hook.pc = "awaitRoute"
       /\ hook.awaited \in {"resolved", "rejected"}
       /\ hooks' = [hooks EXCEPT ![h].pc =
                       IF hook.awaited = "rejected" THEN "failed"
                       ELSE IF hook.navigationPage \notin routesCache THEN "done"
                       ELSE "fetchComponents"]
       /\ UNCHANGED <<prefetchActive, pathsState, pathCache, routesCache,
                      routePromise, inFlight, OtherThanPrefetch>>

\* fetchComponents settles and the task ends
FetchComponentsSettles(h, ok) ==
    /\ hooks[h].pc = "fetchComponents"
    /\ hooks' = [hooks EXCEPT ![h].pc = IF ok THEN "done" ELSE "failed"]
    /\ UNCHANGED <<prefetchActive, pathsState, pathCache, routesCache,
                   routePromise, inFlight, OtherThanPrefetch>>

TaskStep ==
    \/ \E h \in Hooks : StartPrefetchRequests(h)
    \/ \E h \in Hooks : \E outcome \in LookupOutcomes : maybeUpdatePathCache(h, outcome)
    \/ \E h \in Hooks : ResumePrefetchRequests(h)
    \/ \E page \in PrefetchPages : \E ok \in BOOLEAN : FetchRouteDataSettles(page, ok)
    \/ \E page \in PrefetchPages : FinallyCallback(page)
    \/ \E h \in Hooks : RouteAwaitResumes(h)
    \/ \E h \in Hooks : \E ok \in BOOLEAN : FetchComponentsSettles(h, ok)

NextPrefetch ==
    \/ \E h \in Hooks : WaitElapsed(h)
    \/ \E h \in Hooks : \E href \in Hrefs : \E path \in PrefetchPaths :
          \E page \in PageProps : attemptPrefetch(h, href, path, page)
    \/ TaskStep

-----------------------------------------------------------------------------
(***************************************************************************)
(* Specifications: one per component                                       *)
(***************************************************************************)
NextPath == ApplyMountTreePath

SpecPath == InitPath /\ [][NextPath]_vars

SpecStyles == InitStyles /\ [][NextStyles]_vars

SpecGate == InitGate /\ [][NextGate]_vars
\* a pending setTimeout of a retry fires
FairGate == SpecGate /\ WF_vars(\E l \in 1..MaxLoads : RetryTimeout(l))

SpecSlots == InitSlots /\ [][NextSlots]_vars

SpecMerge == InitMerge /\ [][NextMerge]_vars
SpecSlotPath == InitSlotPath /\ [][NextSlotPath]_vars
SpecChildren == InitChildren /\ [][NextChildren]_vars
SpecExtensionPoint == InitExtensionPoint /\ [][NextExtensionPoint]_vars
SpecContent == InitContent /\ [][NextContent]_vars
SpecOuter == InitOuter /\ [][NextOuter]_vars
SpecPrefetch == InitPrefetch /\ [][NextPrefetch]_vars
FairPrefetch == SpecPrefetch /\ WF_vars(TaskStep)

-----------------------------------------------------------------------------
(***************************************************************************)
(* Claims on the critical-style activation, under SpecStyles               *)
(***************************************************************************)
AutoMode == stylePhase = "registered" /\ debugCriticalCSS # "manual"
Settled == {i \in DOMAIN fired : fired[i] # {}}
OneKindEach == \A i \in DOMAIN fired : Cardinality(fired[i]) <= 1

\* C6: with N >= 1 counted styles and no manual override, applyUncritical has
\* run exactly when the recorded count has reached N (so not before, and at
\* the very step that records the Nth id), and it has run at most once.
C6_ActivationAtNthRecord ==
    (AutoMode /\ totalStylesCount >= 1) =>
        /\ applyCount <= 1
        /\ (applyCount = 1) <=> (Len(loadedStyles) >= totalStylesCount)
        /\ stylesHydrated <=> (applyCount = 1)

C6_Witness ==
    /\ AutoMode
    /\ totalStylesCount = 2
    /\ Len(loadedStyles) = 2
    /\ applyCount = 1

\* C7: in automatic mode with N >= 1, once every appended link has fired a
\* load or an error event, the styles are activated and the critical block
\* is gone.
C7_AllSettledActivates ==
    (AutoMode /\ totalStylesCount >= 1 /\ OneKindEach
        /\ Settled = Appended(styleRefs)) =>
        (stylesHydrated /\ ~criticalPresent)

\* C8: when k distinct refs have fired (each its one kind of event, however
\* often), loadedStyles holds exactly k recorded resolutions.
C8_OneRecordPerRef ==
    (stylePhase = "registered" /\ OneKindEach) =>
        Len(loadedStyles) = Cardinality(Settled)

\* C9: two counted refs, one loaded and the other errored, in either order:
\* activation has run once, exactly the loaded link is a stylesheet, the
\* errored one stays a preload, and the critical block is removed.
C9_ErrorCountedNotPromoted ==
    \A i, j \in DOMAIN fired :
        (AutoMode /\ totalStylesCount = 2
            /\ fired[i] = {"loaded"} /\ fired[j] = {"error"}) =>
            /\ applyCount = 1
            /\ stylesHydrated
            /\ loadedStyles \in {<<i, NullId>>, <<NullId, i>>}
            /\ linkRel[i] = "stylesheet"
            /\ linkRel[j] = "preload"
            /\ ~criticalPresent

C9_Witness ==
    /\ AutoMode
    /\ totalStylesCount = 2
    /\ loadedStyles = <<NullId, 2>>
    /\ fired = <<{"error"}, {"loaded"}>>
    /\ linkRel = <<"preload", "stylesheet">>

NonNull(styles) == LET Live(id) == id # NullId IN SelectSeq(styles, Live)
Ascending(seq) == \A j, k \in 1..Len(seq) : j < k => seq[j] < seq[k]

\* C19 (as stated): the iteration order of loadedStyles is always the
\* registration order of the refs, and activation promotes in that order.
C19_RegistrationOrder ==
    AutoMode => Ascending(NonNull(loadedStyles)) /\ Ascending(promoted)

\* C19 (amended): loadedStyles grows only at its end, by the id of the ref
\* whose event is being handled (null for an error), so its iteration order
\* is the order in which the events arrived; automatic activation promotes
\* the recorded ids in that order, and later ids as they arrive.
C19_ArrivalOrder ==
    /\ [](AutoMode => promoted = IF stylesHydrated THEN NonNull(loadedStyles)
                                                   ELSE <<>>)
    /\ [][loadedStyles' # loadedStyles =>
            \E i \in DOMAIN fired, status \in Statuses :
                /\ fired' = [fired EXCEPT ![i] = @ \cup {status}]
                /\ loadedStyles' =
                     Append(loadedStyles, IF status = "loaded" THEN i ELSE NullId)]_vars

C19_Witness ==
    /\ AutoMode
    /\ stylesHydrated
    /\ loadedStyles = <<2, 1>>
    /\ promoted = <<2, 1>>

\* C20: in manual mode, as long as none of applyUncritical, stepUncritical
\* and clearCritical has been called from outside, load and error events
\* activate nothing: stylesHydrated is false, no link is a stylesheet and the
\* critical block is still there, even when all N refs are recorded.
C20_ManualNeverActivates ==
    (debugCriticalCSS = "manual" /\ manualInvoked = {}) =>
        /\ ~stylesHydrated
        /\ \A i \in DOMAIN linkRel : linkRel[i] # "stylesheet"
        /\ promoted = <<>>
        /\ criticalPresent = hasCriticalElement
        /\ applyCount = 0

C20_Witness ==
    /\ debugCriticalCSS = "manual"
    /\ manualInvoked = {}
    /\ hasCriticalElement
    /\ totalStylesCount = 2
    /\ Len(loadedStyles) = 2
    /\ criticalPresent

\* C27: in manual mode, when only stepUncritical is called, no call removes
\* the critical block while a recorded loaded style is not yet promoted.
C27_StepClearsAfterAllPromoted ==
    [][(debugCriticalCSS = "manual" /\ manualInvoked' = {"stepUncritical"}
          /\ criticalPresent /\ ~criticalPresent') =>
         \A k \in 1..Len(loadedStyles) :
             loadedStyles[k] # NullId => linkRel'[loadedStyles[k]] = "stylesheet"]_vars

-----------------------------------------------------------------------------
(***************************************************************************)
(* Claims on the path algebra, under SpecPath                              *)
(***************************************************************************)
\* the self-reference guard collapses two equal non-empty paths
Collapses(currentId, parentTreePath) ==
    parentTreePath = currentId /\ currentId # <<>>

\* none of the four joins of an associativity instance hits the guard
NoCollapse ==
    /\ ~Collapses(pathArgs[2], pathArgs[1])
    /\ ~Collapses(pathArgs[3], pathArgs[2])
    /\ ~Collapses(pathArgs[3], pathOut.ab)
    /\ ~Collapses(pathOut.bc, pathArgs[1])

\* C10 as stated: for all a, b, c joining (a with b) with c equals joining a
\* with (b with c), and mountPath(x, x) = x.
C10_Associative ==
    pathOut.done => (pathOut.left = pathOut.right /\ pathOut.self = pathArgs[1])

\* C10 amended: mountPath(x, x) = x for all x, and the two groupings agree
\* whenever none of the joins involved is a self-reference collapse.
C10_AssociativeUnlessCollapse ==
    pathOut.done =>
        /\ pathOut.self = pathArgs[1]
        /\ NoCollapse => pathOut.left = pathOut.right

C10_Witness ==
    /\ pathOut.done
    /\ NoCollapse
    /\ \A k \in 1..3 : pathArgs[k] # <<>>
    /\ pathArgs[1] # pathArgs[3]
    /\ pathOut.left = pathArgs[1] \o Slash \o pathArgs[2] \o Slash \o pathArgs[3]

-----------------------------------------------------------------------------
(***************************************************************************)
(* Claims on the hydration gate, under SpecGate                            *)
(***************************************************************************)
\* C1: once the gate has rendered its children (LIVE), no later render
\* returns the frozen server-markup placeholder (FROZEN).
C1_LiveNeverFrozen == [][gateView = "LIVE" => gateView' # "FROZEN"]_vars

\* C2: a readiness verification that exhausts its retries rejects the load
\* promise of loadAssets, so the failure leaves the asset-loading step.
C2_ExhaustionRejectsLoad ==
    \A l \in DOMAIN loads : loads[l].stage = "threw" => loads[l].promise = "rejected"

\* every load of the gate, whatever its stage
AllLoads(P(_)) == \A l \in DOMAIN loads : P(loads[l])

\* C14: a readiness verification started with the default budget makes at
\* most 10 timed waits and 11 lookups, waits at most 5500 ms in total,
\* succeeds at the very lookup that finds the implementation, and throws
\* after exactly 10 retries (11 lookups, 5500 ms) when no lookup finds it.
C14_BoundedVerification ==
    /\ [](LET Bounded(L) ==
                /\ L.waits <= 10 /\ L.lookups <= 11 /\ L.waited <= 5500
                /\ L.stage = "waiting" => L.waits < 10
                /\ L.stage = "verified" => L.lookups = L.waits + 1
                /\ L.stage = "threw" =>
                      L.waits = 10 /\ L.lookups = 11 /\ L.waited = 5500
          IN AllLoads(Bounded))
    /\ [][\A l \in DOMAIN loads :
             loads'[l].lookups = loads[l].lookups + 1 =>
                 (loads'[l].stage = "verified" <=> implRegistered)]_vars

C14_Witness ==
    \E l \in DOMAIN loads :
        loads[l].stage = "threw" /\ loads[l].waits = 10 /\ loads[l].waited = 5500

\* C15 (as stated): the wait before the first retry is 1000 ms and each
\* later wait is 100 ms shorter, down to 100 ms before the 10th retry.
C15_DecreasingBackoff ==
    LET Decreasing(L) == L.stage = "waiting" => L.timeout = 1000 - 100 * L.waits
    IN AllLoads(Decreasing)

\* C15 (amended): the wait before the first retry is 100 ms and each later
\* wait is 100 ms longer, up to 1000 ms before the 10th retry.
C15_IncreasingBackoff ==
    LET Increasing(L) == L.stage = "waiting" => L.timeout = 100 * (L.waits + 1)
    IN AllLoads(Increasing)

C15_Witness ==
    \E l \in DOMAIN loads :
        loads[l].stage = "waiting" /\ loads[l].waits = 9 /\ loads[l].timeout = 1000

FirstClientRender == gateView = "unmounted" /\ canUseDOM /\ gateView' # "unmounted"

\* C17 (as stated): on the client the first render is FROZEN iff the node
\* was rendered on the server and hydration is not requested at mount, and
\* LIVE in every other case.
C17_FrozenElseLive ==
    [][FirstClientRender =>
         gateView' = IF hasRenderedOnServer /\ ~shouldHydrate THEN "FROZEN"
                                                               ELSE "LIVE"]_vars

\* C17 (amended): on the client the first render of a server-rendered node
\* is FROZEN when hydration is not requested at mount and LIVE when it is;
\* the first render of a node that was not rendered on the server is the
\* empty container, and such a node renders its children exactly when its
\* assets are loaded.
C17_FrozenLiveOrEmpty ==
    /\ [][FirstClientRender =>
            gateView' = IF ~hasRenderedOnServer THEN "EMPTY"
                        ELSE IF shouldHydrate THEN "LIVE" ELSE "FROZEN"]_vars
    /\ []((canUseDOM /\ ~hasRenderedOnServer /\ gateView # "unmounted") =>
            gateView = IF isLoaded THEN "LIVE" ELSE "EMPTY")

C17_Witness ==
    /\ canUseDOM
    /\ ~hasRenderedOnServer
    /\ gateView = "EMPTY"
    /\ Len(loads) = 1
    /\ loads[1].stage = "fetching"

ServerRenderedGate == canUseDOM /\ hasRenderedOnServer /\ gateView # "unmounted"

\* C18: for a server-rendered gate, (1) a render with a falsy shouldHydrate
\* issues no asset request; (2) the render at which shouldHydrate becomes
\* true from FROZEN either issues one or already shows the children; (3)
\* when a load's verification has succeeded and shouldHydrate is true the
\* gate is LIVE; (4) a frozen gate with shouldHydrate true, a load waiting to
\* poll and the implementation registered gets LIVE, unless shouldHydrate is
\* withdrawn.
C18_FrozenLoadsOnDemand ==
    /\ [][(ServerRenderedGate /\ ~shouldHydrate') => Len(loads') = Len(loads)]_vars
    /\ [][(ServerRenderedGate /\ gateView = "FROZEN" /\ ~shouldHydrate
              /\ shouldHydrate') =>
            \/ gateView' = "LIVE"
            \/ /\ Len(loads') = Len(loads) + 1
               /\ loads'[Len(loads')].stage = "fetching"]_vars
    /\ []((ServerRenderedGate /\ shouldHydrate
              /\ \E l \in DOMAIN loads : loads[l].stage = "verified") =>
            gateView = "LIVE")
    /\ (ServerRenderedGate /\ gateView = "FROZEN" /\ shouldHydrate /\ implRegistered
           /\ \E l \in DOMAIN loads : loads[l].stage = "waiting")
         ~> (gateView = "LIVE" \/ ~shouldHydrate)

C18_Witness ==
    /\ ServerRenderedGate
    /\ ~initialShouldHydrate
    /\ shouldHydrate
    /\ gateView = "LIVE"
    /\ \E l \in DOMAIN loads : loads[l].stage = "verified" /\ loads[l].waits >= 1

-----------------------------------------------------------------------------
(***************************************************************************)
(* Claims on the slot materializer, under SpecSlots                        *)
(***************************************************************************)
\* C3: over all renders of the instances of one labeled slot (basePath, id),
\* overlapping or not, at most one content fetch is issued and the entry at
\* the dynamic path is materialized once.
C3_OneFetchOneEntry == fetches <= 1 /\ Len(dynWrites) <= 1

\* C4: every assignment to runtime.extensions[dynamicTreePath] found the key
\* without an entry, so an existing entry is never assigned again.
C4_CreateOnly == \A k \in 1..Len(dynWrites) : dynWrites[k] = "undefined"

\* C23: with the entries ordered [override, default], the chosen content is
\* the override's parsed contentJSON when that is non-empty, else the
\* default's when that is non-empty, else none.
C23_OverrideThenDefault ==
    contentOut.done =>
        LET NonEmpty(k) == k <= Len(contentArgs) /\ contentArgs[k] \in {"A", "B"}
        IN contentOut.extensionContent =
              IF NonEmpty(1) THEN contentArgs[1]
              ELSE IF NonEmpty(2) THEN contentArgs[2]
              ELSE "none"

\* C24: a DynamicSlot whose content fetch is pending or has failed renders
\* nothing; the registry entry at the dynamic path is written only by a
\* render of an instance whose fetch has succeeded; an instance whose fetch
\* has failed stays failed, and a fetch is started only by the first mount
\* of a DynamicSlot.
C24_PendingOrFailedRendersNothing ==
    /\ [](\A i \in DOMAIN slots :
            (slots[i].mounted = "dynamic" /\ slots[i].query \in {"loading", "error"})
                => slots[i].out = NullOutput)
    /\ [][/\ (dynExt' # dynExt \/ dynWrites' # dynWrites) =>
               \E i \in DOMAIN slots :
                   slots'[i].query = "data" /\ slots'[i].out.kind = "loader"
          /\ \A i \in DOMAIN slots :
               slots[i].query = "error" => slots'[i].query \in {"error", "idle"}
          /\ fetches' # fetches =>
               \E i \in DOMAIN slots :
                   /\ slots[i].mounted # "dynamic"
                   /\ slots'[i].mounted = "dynamic"
                   /\ fetches' = fetches + 1]_vars

C24_Witness ==
    /\ slotRenders >= 1
    /\ dynExt = NoExtension
    /\ dynWrites = <<>>
    /\ fetches = 1
    /\ \E i \in DOMAIN slots :
          /\ slots[i].mounted = "dynamic"
          /\ slots[i].query = "error"
          /\ slots[i].out = NullOutput

\* C28: the renders of the labeled instances of one slot that reach the
\* component loader, the materializing render of DynamicSlot and the later
\* renders that reuse the entry, pass it the same tree path and the same
\* content.
C28_UniformLabeledRender ==
    \A i, j \in DOMAIN slots :
        (slots[i].hasId /\ slots[j].hasId
            /\ slots[i].out.kind = "loader" /\ slots[j].out.kind = "loader")
        => slots[i].out = slots[j].out

-----------------------------------------------------------------------------
(***************************************************************************)
(* Claims on the prop merger, under SpecMerge                              *)
(***************************************************************************)
\* what each of the six sources, in the order of the claim, gives for key K
SourceAt(K) ==
    << AppSettingsLayer(mergeIn).kids[K],
       ParentProps(mergeKey, mergeIn).kids[K],
       IF K = mergeKey THEN mergeIn.extensionProps ELSE Absent,
       IF K = mergeKey THEN mergeIn.blockProps ELSE Absent,
       IF K = mergeKey THEN mergeIn.content ELSE Absent,
       RouteLayer(mergeKey, mergeIn).kids[K] >>

Max(S) == CHOOSE m \in S : \A n \in S : n <= m
Defining(K) == {i \in 1..6 : Has(SourceAt(K)[i])}

\* the sources whose objects reach the result: those with no scalar or array
\* of the same key at or above them
ObjectRun(K) ==
    {i \in Defining(K) : \A u \in Defining(K) : u >= i => IsObject(SourceAt(K)[u])}

\* C5: for every top-level key the merged props carry the value of the
\* highest-numbered source that defines it; a scalar or array is taken
\* whole, objects are merged field by field with the same precedence.
C5_MergePrecedence ==
    mergedProps # NoProps =>
        \A K \in Keys :
            LET m == mergedProps.kids[K]
                src == SourceAt(K)
            IN IF Defining(K) = {} THEN ~Has(m)
               ELSE IF ~IsObject(src[Max(Defining(K))])
                    THEN m = src[Max(Defining(K))]
                    ELSE /\ IsObject(m)
                         /\ \A j \in SubKeys :
                               LET giving == {i \in ObjectRun(K) :
                                                 src[i].kids[j] # AbsentLeaf}
                               IN IF giving = {} THEN m.kids[j] = AbsentLeaf
                                  ELSE m.kids[j] = src[Max(giving)].kids[j]

C5_Witness ==
    /\ mergeKey = "k"
    /\ mergeIn.callSite = Scalar(2)
    /\ mergeIn.extensionProps = Object(3, {"x"})
    /\ mergeIn.blockProps = Object(4, {"x"})
    /\ mergeIn.content = Object(5, {"y"})
    /\ mergedProps.kids["k"].kids["x"] = [t |-> "scalar", src |-> 4]
    /\ mergedProps.kids["k"].kids["y"] = [t |-> "scalar", src |-> 5]
    /\ mergedProps.kids["params"] = Undefined(6)

\* C26: when no app name could be parsed from the component id (no
\* component, or no '@' prefix), the merged props get no appSettings key
\* from the appSettings layer (no other source gives that key here).
C26_AppSettingsOnlyWithAppName ==
    (mergedProps # NoProps /\ mergeIn.appName # "app" /\ mergeKey # "appSettings")
        => ~Has(mergedProps.kids["appSettings"])

-----------------------------------------------------------------------------
(***************************************************************************)
(* Claims on the slot tree paths, under SpecSlotPath                       *)
(***************************************************************************)
HasHash(s) == \E k \in 1..Len(s) : s[k] = "#"
EndsWith(s, suffix) ==
    Len(s) >= Len(suffix) /\ SubSeq(s, Len(s) - Len(suffix) + 1, Len(s)) = suffix
LabeledSlot == slotPathOut.done /\ slotPathArgs.id # <<>>

\* C11 (as stated): for a labeled instance with id i the dynamic tree path
\* is the slot's tree path followed by '#slot' + i when slotValue contains
\* '#', and by '-slot' + i otherwise.
C11_HashSlotWhenHash ==
    LabeledSlot =>
        slotPathOut.dynamicTreePath =
            slotPathOut.newTreePath
            \o (IF HasHash(slotPathArgs.slotValue) THEN <<"#">> ELSE <<"-">>)
            \o <<"s", "l", "o", "t">> \o slotPathArgs.id

\* C11 (amended): for a labeled instance with id i the dynamic tree path is
\* the slot's tree path followed by '-slot' + i when slotValue contains '#',
\* and by '#slot' + i otherwise.
C11_DashSlotWhenHash ==
    LabeledSlot =>
        slotPathOut.dynamicTreePath =
            slotPathOut.newTreePath
            \o (IF HasHash(slotPathArgs.slotValue) THEN <<"-">> ELSE <<"#">>)
            \o <<"s", "l", "o", "t">> \o slotPathArgs.id

C11_Witness ==
    /\ LabeledSlot
    /\ slotPathArgs.treePath = <<"a">>
    /\ slotPathArgs.slotValue = <<"b">>
    /\ slotPathOut.dynamicTreePath = <<"a", "/", "b", "#", "s", "l", "o", "t", "7">>

\* C12: a slot value that contains '#', rendered with id "7", gets a dynamic
\* tree path that ends in "-slot7".
C12_HashValueEndsDashSlot ==
    (slotPathOut.done /\ slotPathArgs.id = <<"7">>
        /\ HasHash(slotPathArgs.slotValue)) =>
        EndsWith(slotPathOut.dynamicTreePath, <<"-", "s", "l", "o", "t", "7">>)

C12_Witness ==
    /\ slotPathOut.done
    /\ slotPathArgs.id = <<"7">>
    /\ slotPathArgs.slotValue = <<"b", "#">>
    /\ EndsWith(slotPathOut.dynamicTreePath, <<"b", "#", "-", "s", "l", "o", "t", "7">>)

\* the base path with its suffix from the first '-slot' on removed, whole
\* when '-slot' does not occur
WithoutDashSlotSuffix(p) ==
    LET At(k) == k + 5 <= Len(p) /\ SubSeq(p, k + 1, k + 5) = <<"-", "s", "l", "o", "t">>
    IN IF \E k \in 0..Len(p) : At(k)
       THEN SubSeq(p, 1, CHOOSE k \in 0..Len(p) : At(k) /\ \A j \in 0..(k - 1) : ~At(j))
       ELSE p

\* C25: the slot's tree path is the base path with only a '-slot...' suffix
\* removed, followed by '/' and slotValue; a base path without '-slot' is
\* kept whole, even when the text 'slot' occurs in it.
C25_OnlyDashSlotSuffixStripped ==
    slotPathOut.done =>
        slotPathOut.newTreePath =
            WithoutDashSlotSuffix(slotPathArgs.treePath) \o <<"/">>
            \o slotPathArgs.slotValue

-----------------------------------------------------------------------------
(***************************************************************************)
(* Claims on the tree resolver, under SpecChildren                         *)
(***************************************************************************)
DeclaredBlocks ==
    IF childArgs.extension.kind = "ext" /\ childArgs.extension.hasBlocks
    THEN childArgs.extension.blocks
    ELSE <<>>
ClaimedChild(b) ==
    /\ b.children \in {"undefined", "true"} \/ b.blockRole = "children"
    /\ b.blockRole # "slot"

\* C13: getChildExtensions yields, in declaration order, one child per block
\* whose children is unset or true or whose blockRole is 'children', and
\* whose blockRole is not 'slot'; the child of block b resolves at
\* mountTreePath(b.extensionPointId, path).
C13_ChildrenInOrder ==
    childOut.done =>
        LET expected == SelectSeq(DeclaredBlocks, ClaimedChild)
            got == childOut.result.elements
        IN /\ Len(got) = Len(expected)
           /\ \A i \in 1..Len(got) :
                /\ got[i].id = expected[i].extensionPointId
                /\ got[i].resolvesAt =
                      mountTreePath(expected[i].extensionPointId, childArgs.treePath)
                /\ expected[i].blockRole # "slot"

C13_Witness ==
    /\ childOut.done
    /\ childArgs.treePath = <<"x">>
    /\ Len(DeclaredBlocks) = 2
    /\ DeclaredBlocks[1].blockRole = "slot"
    /\ DeclaredBlocks[1].children = "true"
    /\ DeclaredBlocks[2].blockRole = "undefined"
    /\ DeclaredBlocks[2].children = "undefined"
    /\ DeclaredBlocks[2].extensionPointId = <<"y">>
    /\ Len(childOut.result.elements) = 1
    /\ childOut.result.elements[1].resolvesAt = <<"x", "/", "y">>

-----------------------------------------------------------------------------
(***************************************************************************)
(* Claims on ExtensionPoint, under SpecExtensionPoint                      *)
(***************************************************************************)
ComputedTreePath ==
    mountTreePath(epArgs.id, IF epArgs.treePath # <<>> THEN epArgs.treePath
                                                       ELSE epArgs.hookTreePath)
\* the registry holds an extension at the computed tree path (it is defined,
\* has that key, and the value is not null)
HasEntry ==
    /\ epArgs.registry.defined
    /\ epArgs.registry.key = ComputedTreePath
    /\ epArgs.registry.value.kind = "ext"

\* C16: ExtensionPoint returns nothing exactly when the registry has no
\* extension at the computed tree path; with an extension whose component
\* is null it returns an element whose loader holds a placeholder instead of
\* the children: the generic preview at a root tree path, the loading
\* placeholder elsewhere.
C16_NothingIffNoEntry ==
    epOut.done =>
        /\ epOut.element.kind = "nothing" <=> ~HasEntry
        /\ (HasEntry /\ epArgs.registry.value.component = "null") =>
              /\ epOut.element.kind = "element"
              /\ epOut.element.loaderChildren =
                    IF \E k \in 1..Len(ComputedTreePath) : ComputedTreePath[k] = "/"
                    THEN "Loading" ELSE "GenericPreview"

C16_Witness ==
    /\ epOut.done
    /\ HasEntry
    /\ epArgs.registry.value.component = "null"
    /\ epOut.element.kind = "element"
    /\ epOut.element.loaderChildren = "Loading"

\* C21: the children handed to the component are the children derived from
\* the registry iff the extension declares composition = 'children' and has
\* a non-empty blocks list; in every other case, an empty blocks list
\* included, they are the children passed at the call site.
C21_CompositionOverride ==
    (epOut.done /\ HasEntry) =>
        LET extension == epArgs.registry.value
            override == /\ extension.composition = "children"
                        /\ extension.hasBlocks
                        /\ extension.blocks # <<>>
        IN epOut.element.componentChildren.from =
              IF override THEN "registry" ELSE "callSite"

-----------------------------------------------------------------------------
(***************************************************************************)
(* Claims on the outer extensions, under SpecOuter                         *)
(***************************************************************************)
RECURSIVE Peel(_, _)
\* the element found under the k outermost around elements
Peel(el, k) == IF k = 0 THEN el ELSE Peel(el.child, k - 1)

IdsOf(elements) == [i \in 1..Len(elements) |-> elements[i].id]

\* C22: with around ids a1..an the result is an(...a2(a1(wrapped))...), the
\* last declared id outermost, where wrapped holds the before elements, the
\* node and the after elements in declaration order; with the three lists
\* empty the node itself is returned.
C22_LastAroundOutermost ==
    outerOut.done =>
        LET n == Len(outerArgs.around)
            out == outerOut.element
        IN IF n = 0 /\ outerArgs.before = <<>> /\ outerArgs.after = <<>>
           THEN out = NodeElement
           ELSE /\ \A k \in 1..n :
                     /\ Peel(out, n - k).tag = "around"
                     /\ Peel(out, n - k).id = outerArgs.around[k]
                /\ Peel(out, n).tag = "wrapped"
                /\ IdsOf(Peel(out, n).before) = outerArgs.before
                /\ Peel(out, n).element = NodeElement
                /\ IdsOf(Peel(out, n).after) = outerArgs.after

C22_Witness ==
    /\ outerOut.done
    /\ outerArgs.around = <<"p", "q">>
    /\ outerArgs.before = <<"q", "p">>
    /\ outerArgs.after = <<"p">>
    /\ outerOut.element.id = "q"
    /\ outerOut.element.child.id = "p"
    /\ outerOut.element.child.child.tag = "wrapped"

-----------------------------------------------------------------------------
(***************************************************************************)
(* Claims on the route prefetch, under SpecPrefetch and FairPrefetch       *)
(***************************************************************************)
\* C29: at most one fetchRouteData call per page is in flight at any time,
\* and no fetchRouteData call is started for a page whose route data is
\* already in routesCache.
C29_RouteDataFetchedOncePerPage ==
    /\ [](\A page \in PrefetchPages : inFlight[page] <= 1)
    /\ [][\A page \in PrefetchPages :
            inFlight'[page] > inFlight[page] => page \notin routesCache]_vars

\* two tasks wait for the one fetchRouteData call of the same page
C29_Witness ==
    \E g, h \in Hooks :
        /\ g # h
        /\ hooks[g].pc = "awaitRoute" /\ hooks[h].pc = "awaitRoute"
        /\ hooks[g].navigationPage = hooks[h].navigationPage
        /\ hooks[g].awaited = "pending" /\ hooks[h].awaited = "pending"
        /\ inFlight[hooks[g].navigationPage] = 1

\* C30: a path marked as fetching by attemptPrefetch is eventually marked
\* not fetching, whatever the outcome of the path lookup of its task.
C30_FetchingEventuallyCleared ==
    \A path \in PrefetchPaths :
        pathsState[path].fetching ~> ~pathsState[path].fetching

=============================================================================
